---- MODULE Spec2Model ----
(***************************************************************************)
(* Workspace orchestration engine of ocw: the metadata store               *)
(* (internal/state), the instance lifecycle, the reconciler, the           *)
(* dependency graph, the conflict detector (internal/workspace) and the    *)
(* merge entry points (cmd/merge.go, the TUI merge view).                  *)
(*                                                                         *)
(* Strings are sequences of one-character strings.  Every external tool    *)
(* call (git, tmux, kill) and every store Load / Save is one step of the   *)
(* calling process; other processes and the environment interleave         *)
(* between the steps.                                                      *)
(***************************************************************************)
EXTENDS Integers, Sequences, FiniteSets, TLC

(* ----------------------------- bounds ---------------------------------- *)
\* size of the id space GenerateID draws from (2^24 in the program)
NumIDs == 2
\* cap on the number of records in the document
MaxInstances == 3
\* cap on the window handles one tmux server hands out
MaxWindows == 2
\* cap on the process ids the system hands out
MaxPids == 2
\* cap on the pane ids one tmux server hands out to split-window
MaxPaneIDs == 7

\* the two ocw processes that work on the same repository
Procs == {1, 2}
\* the process that runs the lifecycle verbs
Operator == {1}
IDs == 1..NumIDs

\* branch names the operator asks for
BranchNames == {<<"f", "/", "x">>, <<"y">>}
\* config.Workspace.BaseBranch, checked out in the main worktree
Base == <<"m">>
RepoRoot == <<"/">>
\* the files a branch may have modified against its base
Files == {"p"}
\* sub-panes split off while sub-panes are also killed
MaxKillPanes == 2
\* longest branch name the path derivation is tried on
MaxLen == 3
\* the characters of those names
BranchChars == {"a", "/", " ", "-", "."}

(* ----------------------------- strings --------------------------------- *)
\* the character class [a-zA-Z0-9\-_.] of sanitizeBranchName
PathChars ==
    {"a","b","c","d","e","f","g","h","i","j","k","l","m",
     "n","o","p","q","r","s","t","u","v","w","x","y","z",
     "A","B","C","D","E","F","G","H","I","J","K","L","M",
     "N","O","P","Q","R","S","T","U","V","W","X","Y","Z",
     "0","1","2","3","4","5","6","7","8","9", "-", "_", "."}

RECURSIVE TrimLeft(_, _)
TrimLeft(s, cut) ==
    IF s # <<>> /\ Head(s) \in cut THEN TrimLeft(Tail(s), cut) ELSE s

RECURSIVE TrimRight(_, _)
TrimRight(s, cut) ==
    IF s # <<>> /\ s[Len(s)] \in cut
    THEN TrimRight(SubSeq(s, 1, Len(s) - 1), cut)
    ELSE s

\* a sanitizeBranchName that strips only the leading "-" and "."
sanitizeLeadingOnly(branch) ==
    LET s1 == [i \in 1..Len(branch) |->
                  IF branch[i] = "/" THEN "-" ELSE branch[i]]
        s2 == [i \in 1..Len(s1) |->
                  IF s1[i] \in PathChars THEN s1[i] ELSE "-"]
        s3 == TrimLeft(s2, {"-", "."})
    IN  IF s3 = <<>> THEN <<"b","r","a","n","c","h">> ELSE s3

\* "/" becomes "-", every character outside the class becomes "-", then
\* strings.Trim(sanitized, "-."); an empty result is replaced by "branch"
sanitizeBranchName(branch) ==
    LET s1 == [i \in 1..Len(branch) |->
                  IF branch[i] = "/" THEN "-" ELSE branch[i]]
        s2 == [i \in 1..Len(s1) |->
                  IF s1[i] \in PathChars THEN s1[i] ELSE "-"]
        s3 == TrimRight(TrimLeft(s2, {"-", "."}), {"-", "."})
    IN  IF s3 = <<>> THEN <<"b","r","a","n","c","h">> ELSE s3

(* ----------------------------- records --------------------------------- *)
NoStr == <<>>

\* state.Instance (Name, Port and the two timestamps are not modelled)
Instance(id, branch, base, path, win, pane, pid) ==
    [ID |-> id, Branch |-> branch, BaseBranch |-> base, WorktreePath |-> path,
     TmuxWindow |-> win, PrimaryPane |-> pane, SubTerminals |-> <<>>,
     PID |-> pid, Status |-> "running", PRUrl |-> NoStr,
     ConflictsWith |-> <<>>, DependsOn |-> <<>>]

NoInst == Instance(0, NoStr, NoStr, NoStr, 0, 0, 0)

\* the closures handed to Store.UpdateInstance
NoFn == [kind |-> "none", arg |-> 0]
SetStatus(s) == [kind |-> "status", arg |-> s]

\* the closure of RemoveDependency
DropDependency(id) == [kind |-> "undep", arg |-> id]
\* the closure of CreatePR
SetMerged(prURL) == [kind |-> "merged", arg |-> prURL]
\* the closure of CreateSubTerminal (Label and CreatedAt are not modelled)
AddSubTerminal(paneID) == [kind |-> "subterm", arg |-> paneID]
\* the closure of KillSubTerminal: the entries with another pane id
RemoveSubTerminal(paneID) == [kind |-> "unsubterm", arg |-> paneID]
\* the closure of UpdateInstanceConflicts
SetConflicts(ids) == [kind |-> "conflicts", arg |-> ids]

ApplyFn(fn, inst) ==
    CASE fn.kind = "status" -> [inst EXCEPT !.Status = fn.arg]
      [] fn.kind = "undep" ->
            [inst EXCEPT !.DependsOn = SelectSeq(@, LAMBDA d : d # fn.arg)]
      [] fn.kind = "conflicts" -> [inst EXCEPT !.ConflictsWith = fn.arg]
      [] fn.kind = "subterm" ->
            [inst EXCEPT !.SubTerminals = Append(@, fn.arg)]
      [] fn.kind = "unsubterm" ->
            [inst EXCEPT !.SubTerminals = SelectSeq(@, LAMBDA st : st # fn.arg)]
      [] fn.kind = "merged" ->
            [inst EXCEPT !.PRUrl = fn.arg, !.Status = "merged"]
      [] OTHER -> inst

\* a file: complete is FALSE for a document that was only partly written
Doc(insts) == [exists |-> TRUE, complete |-> TRUE, insts |-> insts]
Partial == [exists |-> TRUE, complete |-> FALSE, insts |-> <<>>]
NoFile == [exists |-> FALSE, complete |-> TRUE, insts |-> <<>>]

(* ----------------------------- state ----------------------------------- *)
VARIABLES
    file,       \* .ocw/state.json (an absent file reads as the empty State)
    tmp,        \* .ocw/state.json.tmp
    lock,       \* holder of the exclusive flock on state.json.lock, 0 if none
    pc,         \* position of each process
    loc,        \* local variables of each process
    expect,     \* per process: what its last successful store call did
    session,    \* the tmux session of the repository exists
    windows,    \* windows in the session: [ID, PID], PID of the pane's process
    nextWin,    \* the next window handle the tmux server hands out
    nextPid,    \* the next process id
    nextPane,   \* the next pane id split-window hands out
    panes,      \* sub-panes that exist: [ID, Win]
    deadPanes,  \* primary panes whose process exited (remain-on-exit)
    alive,      \* pids of running processes
    worktrees,  \* linked worktrees in git's listing: [Path, Branch]
    branches,   \* local branches
    remote,     \* origin: the branches pushed to it and those with a
                \* review request
    last        \* per process: the verb it is running, and the store and
                \* the resources as they were when the verb was called

storeVars == <<file, tmp, lock>>
procVars == <<pc, loc>>
tmuxVars == <<session, windows, nextWin, nextPid, nextPane, panes, deadPanes, alive>>
gitVars == <<worktrees, branches>>
worldVars == <<session, windows, nextWin, nextPid, nextPane, panes, deadPanes, alive,
               worktrees, branches>>
vars == <<file, tmp, lock, pc, loc, expect, session, windows, nextWin, nextPid, nextPane,
          panes, deadPanes, alive, worktrees, branches, remote, last>>

\* ReconcileResult (the two flags of repair and prune are not modelled);
\* Errors holds, for every collected error, the step that failed and the id
\* of the instance: "window", "panes", "remove" or "update"
NoRes == [InstancesFixed |-> 0, InstancesRemoved |-> 0,
          OrphanedWorktrees |-> {}, Errors |-> {}]

\* no review tool has run
NoOut == [exit |-> 0 - 1, lines |-> <<>>]

NoLoc ==
    [sop |-> "none", id |-> 0, inst |-> NoInst, fn |-> NoFn,
     st |-> <<>>, err |-> "", cont |-> "idle",
     verb |-> "none", branch |-> NoStr, base |-> NoStr,
     path |-> NoStr, branchExists |-> FALSE, win |-> 0, pane |-> 0, pid |-> 0,
     force |-> FALSE, deleteBranch |-> FALSE, i |-> 0, dep |-> 0,
     cur |-> <<>>, wts |-> {}, sessionExists |-> FALSE, windowMap |-> {},
     toRemove |-> <<>>, toUpdate |-> {}, res |-> NoRes, conflicts |-> <<>>,
     hasConflicts |-> FALSE, conflictFiles |-> <<>>, unmergedDeps |-> <<>>,
     signal |-> "none", prTool |-> "none", prOut |-> NoOut, bare |-> FALSE,
     sorted |-> <<>>, again |-> FALSE]

\* prev: the create or add_dependency this process has just returned from
\* with no error: its ids and the store contents it was called on ("none":
\* the verb that returned last was neither, or it failed)
NoPrev == [verb |-> "none", id |-> 0, dep |-> 0, insts |-> <<>>]

\* proc is the ocw process the operator is in: "none" outside the TUI
\* (each subcommand is a process of its own), "start" in runTUI before its
\* Reconcile has returned, "tui" in the running TUI
NoLast == [verb |-> "none", id |-> 0, insts |-> <<>>, windows |-> {},
           panes |-> {}, worktrees |-> {}, branches |-> {}, alive |-> {},
           prev |-> NoPrev, proc |-> "none"]

\* the state after ocw init: no document, no session, no worktree
Init ==
    /\ file = NoFile
    /\ tmp = NoFile
    /\ lock = 0
    /\ pc = [p \in Procs |-> "idle"]
    /\ loc = [p \in Procs |-> NoLoc]
    /\ expect = [p \in Procs |-> "none"]
    /\ session = FALSE
    /\ windows = {}
    /\ nextWin = 1
    /\ nextPid = 1
    /\ nextPane = 1
    /\ panes = {}
    /\ deadPanes = {}
    /\ alive = {}
    /\ worktrees = {}
    /\ branches = {Base}
    /\ remote = [pushed |-> {}, prs |-> {}]
    /\ last = [p \in Procs |-> NoLast]

IndexOf(insts, id) ==
    IF \E i \in 1..Len(insts) : insts[i].ID = id
    THEN CHOOSE i \in 1..Len(insts) :
            insts[i].ID = id /\ \A j \in 1..(i - 1) : insts[j].ID # id
    ELSE 0

Filter(insts, id) == SelectSeq(insts, LAMBDA r : r.ID # id)

\* the last record with the id, 0 if none (a loop that does not break)
LastIndexOf(insts, id) ==
    IF \E i \in 1..Len(insts) : insts[i].ID = id
    THEN CHOOSE i \in 1..Len(insts) :
            insts[i].ID = id /\ \A j \in (i + 1)..Len(insts) : insts[j].ID # id
    ELSE 0

Elems(seq) == {seq[i] : i \in 1..Len(seq)}

(* ----------------------------- store ----------------------------------- *)
\* Store.Load takes the shared lock: it waits while a writer holds the lock
CanRLock == lock = 0
\* Store.Save takes the exclusive lock
CanLock == lock = 0

Goto(p, label) == pc' = [pc EXCEPT ![p] = label]

\* Load and the in-memory modification of AddInstance / RemoveInstance /
\* UpdateInstance; the modified copy is kept in loc[p].st for Save
StoreLoad(p) ==
    /\ pc[p] = "store_load"
    /\ CanRLock
    /\ loc[p].sop = "add" => Len(file.insts) < MaxInstances
    /\ LET l == loc[p]
           insts == file.insts
           i == IndexOf(insts, l.id)
       IN  IF ~file.complete
           THEN /\ loc' = [loc EXCEPT ![p].err = "state-corrupt"]
                /\ Goto(p, l.cont)
           ELSE CASE l.sop = "add" ->
                       /\ loc' = [loc EXCEPT ![p].st = Append(insts, l.inst)]
                       /\ Goto(p, "store_save")
                  [] l.sop = "remove" ->
                       /\ loc' = [loc EXCEPT ![p].st = Filter(insts, l.id)]
                       /\ Goto(p, "store_save")
                  [] OTHER ->
                       IF i = 0
                       THEN /\ loc' = [loc EXCEPT ![p].err = "not-found"]
                            /\ Goto(p, l.cont)
                       ELSE /\ loc' = [loc EXCEPT ![p].st =
                                   [insts EXCEPT ![i] = ApplyFn(l.fn, insts[i])]]
                            /\ Goto(p, "store_save")
    /\ UNCHANGED <<storeVars, expect, remote, worldVars, last>>

\* a Save that writes the document straight to the target path
SaveWriteInPlace(p) ==
    /\ pc[p] = "store_save"
    /\ CanLock
    /\ \/ /\ file' = Doc(loc[p].st)
          /\ loc' = [loc EXCEPT ![p].st = <<>>]
       \/ /\ file' = Partial
          /\ loc' = [loc EXCEPT ![p].err = "save-failed", ![p].st = <<>>]
    /\ Goto(p, loc[p].cont)
    /\ UNCHANGED <<tmp, lock, expect, remote, worldVars, last>>

\* Store.Save, first half: lock, marshal, os.WriteFile(tmpPath)
SaveWriteTmp(p) ==
    /\ pc[p] = "store_save"
    /\ CanLock
    /\ \/ /\ tmp' = Doc(loc[p].st)
          /\ lock' = p
          /\ Goto(p, "store_rename")
          /\ UNCHANGED loc
       \/ /\ tmp' = Partial
          /\ lock' = 0
          /\ loc' = [loc EXCEPT ![p].err = "save-failed", ![p].st = <<>>]
          /\ Goto(p, loc[p].cont)
    /\ UNCHANGED <<file, expect, remote, worldVars, last>>

\* Store.Save, second half: os.Rename(tmpPath, statePath), deferred Unlock;
\* the copy of the document goes out of scope
SaveRename(p) ==
    /\ pc[p] = "store_rename"
    /\ lock = p
    /\ \/ /\ file' = tmp
          /\ tmp' = NoFile
          /\ loc' = [loc EXCEPT ![p].st = <<>>]
       \/ /\ tmp' = NoFile
          /\ loc' = [loc EXCEPT ![p].err = "save-failed", ![p].st = <<>>]
          /\ UNCHANGED file
    /\ lock' = 0
    /\ Goto(p, loc[p].cont)
    /\ UNCHANGED <<expect, remote, worldVars, last>>

\* the process dies inside Save; the kernel drops its flock
Crash(p) ==
    /\ \/ /\ pc[p] = "store_save"
          /\ CanLock
          /\ tmp' = Partial
       \/ /\ pc[p] = "store_rename"
          /\ UNCHANGED tmp
    /\ lock' = 0
    /\ pc' = [pc EXCEPT ![p] = "dead"]
    /\ loc' = [loc EXCEPT ![p] = NoLoc]
    /\ UNCHANGED <<file, expect, remote, worldVars, last>>

\* a new ocw process is started in place of one that died
Restart(p) ==
    /\ pc[p] = "dead"
    /\ Goto(p, "idle")
    /\ UNCHANGED <<storeVars, loc, expect, remote, worldVars, last>>


(* ------------------------- external tools ------------------------------ *)
MainWorktree == [Path |-> RepoRoot, Branch |-> Base]
\* git worktree list --porcelain (no bare entry: the repository has a
\* main worktree)
WorktreeList == {MainWorktree} \cup worktrees
PathInUse(path) == \E w \in WorktreeList : w.Path = path
CheckedOut(branch) == \E w \in WorktreeList : w.Branch = branch

\* Git.BranchExists
BranchExists(branch) == branch \in branches

\* git worktree add <path> -b <branch> <base> succeeds
WorktreeAddOK(path, branch, base) ==
    ~PathInUse(path) /\ branch \notin branches /\ base \in branches

\* git worktree add <path> <branch> succeeds
WorktreeAddExistingOK(path, branch) ==
    ~PathInUse(path) /\ branch \in branches /\ ~CheckedOut(branch)

\* the listing after git worktree remove <path>
WorktreesWithout(path) == {w \in worktrees : w.Path # path}

\* Tmux.HasSession
HasSession == session

\* handles of the windows tmux lists
WindowIDs == {w.ID : w \in windows}

\* the tmux state after kill-window -t id: the panes and their processes go
KillWindowEffect(id) ==
    /\ windows' = {w \in windows : w.ID # id}
    /\ panes' = {sp \in panes : sp.Win # id}
    /\ deadPanes' = deadPanes \ {id}
    /\ alive' = alive \ {w.PID : w \in {x \in windows : x.ID = id}}
    /\ UNCHANGED <<session, nextWin, nextPid, nextPane>>

\* filepath.Join(repoRoot, config.Workspace.WorktreeDir, sanitizedBranch)
WorktreePathOf(branch) == RepoRoot \o <<"w", "/">> \o sanitizeBranchName(branch)

(* --------------------------- verbs: common ----------------------------- *)
Begin(p, verb, id) ==
    last' = [last EXCEPT ![p] =
        [verb |-> verb, id |-> id, insts |-> file.insts, windows |-> windows,
         panes |-> panes, worktrees |-> worktrees, branches |-> branches,
         alive |-> alive, prev |-> last[p].prev, proc |-> last[p].proc]]

\* the verb returns to the operator: loc[p].err is its error and
\* loc[p].cont the step that produced it
Return(p) ==
    /\ pc[p] = "return"
    /\ last' = [last EXCEPT ![p] =
           LET proc == IF last[p].proc = "start" /\ loc[p].verb = "reconcile"
                       THEN "tui" ELSE last[p].proc
           IN  IF last[p].verb \in {"create", "add_dependency"} /\ loc[p].err = ""
               THEN [NoLast EXCEPT !.proc = proc, !.prev =
                        [verb |-> last[p].verb, id |-> loc[p].id,
                         dep |-> loc[p].dep, insts |-> last[p].insts]]
               ELSE [NoLast EXCEPT !.proc = proc]]
    /\ loc' = [loc EXCEPT ![p] = NoLoc]
    /\ Goto(p, "idle")
    /\ UNCHANGED <<storeVars, expect, remote, worldVars>>

Fail(p, err, at) ==
    /\ loc' = [loc EXCEPT ![p].err = err, ![p].cont = at]
    /\ Goto(p, "return")

(* ------------------------------ create --------------------------------- *)
\* Manager.CreateInstance: argument check, GenerateID, worktree path
CreateInstance(p) ==
    /\ pc[p] = "idle"
    /\ \E branch \in BranchNames \cup {NoStr}, id \in IDs :
         /\ Begin(p, "create", id)
         /\ IF branch = NoStr
            THEN /\ loc' = [loc EXCEPT ![p] =
                        [NoLoc EXCEPT !.verb = "create", !.err = "precondition-failed",
                                      !.cont = "args"]]
                 /\ Goto(p, "return")
            ELSE /\ loc' = [loc EXCEPT ![p] =
                        [NoLoc EXCEPT !.verb = "create", !.id = id,
                                      !.branch = branch, !.base = Base,
                                      !.path = WorktreePathOf(branch)]]
                 /\ Goto(p, "ensure_has")
    /\ UNCHANGED <<storeVars, expect, remote, worldVars>>

\* where the caller of EnsureSession goes on: CreateInstance,
\* RecoverFromCrash, or the caller that only wanted the session
AfterEnsure(verb) ==
    CASE verb = "create" -> "c_branch"
      [] verb = "recover" -> "x_mark"
      [] OTHER -> "return"

\* a call of Manager.EnsureSession on its own
EnsureSession(p) ==
    /\ pc[p] = "idle"
    /\ Begin(p, "ensure_session", 0)
    /\ loc' = [loc EXCEPT ![p] = [NoLoc EXCEPT !.verb = "ensure_session"]]
    /\ Goto(p, "ensure_has")
    /\ UNCHANGED <<storeVars, expect, remote, worldVars>>

\* Manager.EnsureSession: HasSession
EnsureSessionHas(p) ==
    /\ pc[p] = "ensure_has"
    /\ IF HasSession
       THEN Goto(p, AfterEnsure(loc[p].verb))
       ELSE Goto(p, "ensure_new")
    /\ UNCHANGED <<loc, storeVars, expect, remote, worldVars, last>>

\* Manager.EnsureSession: NewSession, which fails when the session exists
EnsureSessionNew(p) ==
    /\ pc[p] = "ensure_new"
    /\ IF session
       THEN /\ Fail(p, "external-tool-failed", "session")
            /\ UNCHANGED session
       ELSE /\ session' = TRUE
            /\ Goto(p, AfterEnsure(loc[p].verb))
            /\ UNCHANGED loc
    /\ UNCHANGED <<storeVars, expect, remote, windows, nextWin, nextPid, nextPane, panes,
                   deadPanes, alive, gitVars, last>>

\* m.git.BranchExists(opts.Branch)
CreateBranchExists(p) ==
    /\ pc[p] = "c_branch"
    /\ loc' = [loc EXCEPT ![p].branchExists = BranchExists(loc[p].branch)]
    /\ Goto(p, "c_worktree")
    /\ UNCHANGED <<storeVars, expect, remote, worldVars, last>>

\* WorktreeAddExisting or WorktreeAdd; on failure create returns at once
CreateWorktree(p) ==
    /\ pc[p] = "c_worktree"
    /\ LET l == loc[p]
           ok == IF l.branchExists
                 THEN WorktreeAddExistingOK(l.path, l.branch)
                 ELSE WorktreeAddOK(l.path, l.branch, l.base)
       IN  IF ok
           THEN /\ worktrees' = worktrees \cup {[Path |-> l.path, Branch |-> l.branch]}
                /\ branches' = branches \cup {l.branch}
                /\ Goto(p, "c_window")
                /\ UNCHANGED loc
           ELSE /\ Fail(p, "external-tool-failed", "worktree")
                /\ UNCHANGED gitVars
    /\ UNCHANGED <<storeVars, expect, remote, tmuxVars, last>>

\* a NewWindow whose failure returns without removing the worktree
CreateWindowNoUndo(p) ==
    /\ pc[p] = "c_window"
    /\ loc' = [loc EXCEPT ![p].err = "external-tool-failed",
                          ![p].cont = "window"]
    /\ Goto(p, "return")
    /\ UNCHANGED <<storeVars, expect, remote, worldVars, last>>

\* m.tmux.NewWindow: the handle of the new window, or an error
CreateWindow(p) ==
    /\ pc[p] = "c_window"
    /\ \/ /\ session
          /\ nextWin <= MaxWindows
          /\ nextPid <= MaxPids
          /\ windows' = windows \cup {[ID |-> nextWin, PID |-> nextPid]}
          /\ alive' = alive \cup {nextPid}
          /\ nextWin' = nextWin + 1
          /\ nextPid' = nextPid + 1
          /\ loc' = [loc EXCEPT ![p].win = nextWin]
          /\ Goto(p, "c_remain")
          /\ UNCHANGED <<session, nextPane, panes, deadPanes>>
       \/ /\ loc' = [loc EXCEPT ![p].err = "external-tool-failed",
                                ![p].cont = "window"]
          /\ Goto(p, "c_undo_worktree")
          /\ UNCHANGED tmuxVars
    /\ UNCHANGED <<storeVars, expect, remote, gitVars, last>>

\* a tmux call on the new window: SetRemainOnExit, ListPanes, SendKeys,
\* ListPanes; each fails when the window is gone (config.InitCommand is
\* empty, so no second SendKeys)
CreateSetup(p) ==
    /\ pc[p] \in {"c_remain", "c_panes", "c_send", "c_pid"}
    /\ LET l == loc[p]
           next == CASE pc[p] = "c_remain" -> "c_panes"
                     [] pc[p] = "c_panes" -> "c_send"
                     [] pc[p] = "c_send" -> "c_pid"
                     [] OTHER -> "c_add"
           w == CHOOSE x \in windows : x.ID = l.win
       IN  IF l.win \notin WindowIDs
           THEN /\ loc' = [loc EXCEPT ![p].err = "external-tool-failed",
                                      ![p].cont = pc[p]]
                /\ Goto(p, "c_undo_window")
           ELSE /\ loc' = [loc EXCEPT
                      ![p].pane = IF pc[p] = "c_panes" THEN l.win ELSE @,
                      ![p].pid = IF pc[p] = "c_pid" THEN w.PID ELSE @]
                /\ Goto(p, next)
    /\ UNCHANGED <<storeVars, expect, remote, worldVars, last>>

\* an AddInstance whose record does not carry the handle of the window
CreateAddNoHandle(p) ==
    /\ pc[p] = "c_add"
    /\ LET l == loc[p]
       IN  loc' = [loc EXCEPT ![p].sop = "add", ![p].cont = "c_added",
                     ![p].inst = Instance(l.id, l.branch, l.base, l.path,
                                          0, l.pane, l.pid)]
    /\ Goto(p, "store_load")
    /\ UNCHANGED <<storeVars, expect, remote, worldVars, last>>

\* m.store.AddInstance(instance)
CreateAdd(p) ==
    /\ pc[p] = "c_add"
    /\ LET l == loc[p]
       IN  loc' = [loc EXCEPT ![p].sop = "add", ![p].cont = "c_added",
                     ![p].inst = Instance(l.id, l.branch, l.base, l.path,
                                          l.win, l.pane, l.pid)]
    /\ Goto(p, "store_load")
    /\ UNCHANGED <<storeVars, expect, remote, worldVars, last>>

\* a create that runs its compensations whatever AddInstance returned
CreateAddedThenUndo(p) ==
    /\ pc[p] = "c_added"
    /\ loc' = [loc EXCEPT ![p].cont = "store"]
    /\ Goto(p, "c_undo_window")
    /\ UNCHANGED <<storeVars, expect, remote, worldVars, last>>

CreateAdded(p) ==
    /\ pc[p] = "c_added"
    /\ IF loc[p].err = ""
       THEN /\ loc' = [loc EXCEPT ![p].cont = "ok"]
            /\ Goto(p, "return")
       ELSE /\ loc' = [loc EXCEPT ![p].cont = "store"]
            /\ Goto(p, "c_undo_window")
    /\ UNCHANGED <<storeVars, expect, remote, worldVars, last>>

\* compensation: _ = m.tmux.KillWindow(windowID)
CreateUndoWindowNoKill(p) ==
    /\ pc[p] = "c_undo_window"
    /\ Goto(p, "c_undo_worktree")
    /\ UNCHANGED <<loc, storeVars, expect, remote, worldVars, last>>

CreateUndoWindow(p) ==
    /\ pc[p] = "c_undo_window"
    /\ IF loc[p].win \in WindowIDs
       THEN KillWindowEffect(loc[p].win)
       ELSE UNCHANGED tmuxVars
    /\ Goto(p, "c_undo_worktree")
    /\ UNCHANGED <<loc, storeVars, expect, remote, gitVars, last>>

\* compensation: _ = m.git.WorktreeRemove(worktreePath, true)
CreateUndoWorktree(p) ==
    /\ pc[p] = "c_undo_worktree"
    /\ worktrees' = WorktreesWithout(loc[p].path)
    /\ Goto(p, "return")
    /\ UNCHANGED <<loc, storeVars, expect, remote, tmuxVars, branches, last>>

(* ------------------------------ delete --------------------------------- *)
\* Manager.DeleteInstance: Load and lookup
DeleteInstance(p) ==
    /\ pc[p] = "idle"
    /\ CanRLock
    /\ \E id \in IDs, force \in BOOLEAN, deleteBranch \in BOOLEAN :
         LET i == IndexOf(file.insts, id)
         IN  /\ Begin(p, "delete", id)
             /\ IF i = 0
                THEN /\ loc' = [loc EXCEPT ![p] =
                            [NoLoc EXCEPT !.verb = "delete", !.err = "not-found",
                                          !.cont = "lookup"]]
                     /\ Goto(p, "return")
                ELSE /\ loc' = [loc EXCEPT ![p] =
                            [NoLoc EXCEPT !.verb = "delete", !.id = id,
                                          !.force = force,
                                          !.deleteBranch = deleteBranch,
                                          !.inst = file.insts[i], !.i = 1]]
                     /\ Goto(p, "d_panes")
    /\ UNCHANGED <<storeVars, expect, remote, worldVars>>

\* the loop over instance.SubTerminals: _ = m.tmux.KillPane(subTerm.PaneID)
DeleteKillPanes(p) ==
    /\ pc[p] = "d_panes"
    /\ LET l == loc[p]
       IN  IF l.i <= Len(l.inst.SubTerminals)
           THEN /\ panes' = {sp \in panes : sp.ID # l.inst.SubTerminals[l.i]}
                /\ loc' = [loc EXCEPT ![p].i = l.i + 1]
                /\ UNCHANGED pc
           ELSE /\ Goto(p, "d_window")
                /\ UNCHANGED <<loc, panes>>
    /\ UNCHANGED <<storeVars, expect, remote, session, windows, nextWin, nextPid, nextPane,
                   deadPanes, alive, gitVars, last>>

\* m.tmux.KillWindow(instance.TmuxWindow); its error aborts unless force
DeleteKillWindow(p) ==
    /\ pc[p] = "d_window"
    /\ LET l == loc[p]
       IN  IF l.inst.TmuxWindow \in WindowIDs
           THEN /\ KillWindowEffect(l.inst.TmuxWindow)
                /\ Goto(p, "d_worktree")
                /\ UNCHANGED loc
           ELSE /\ UNCHANGED tmuxVars
                /\ IF l.force
                   THEN Goto(p, "d_worktree") /\ UNCHANGED loc
                   ELSE Fail(p, "external-tool-failed", "window")
    /\ UNCHANGED <<storeVars, expect, remote, gitVars, last>>

\* a delete that does not compare the branch with the base branch
AfterWorktreeAnyBranch(l) ==
    IF l.deleteBranch /\ l.inst.Branch # NoStr THEN "d_branch" ELSE "d_remove"

\* the step after the worktree removal
AfterWorktree(l) ==
    IF l.deleteBranch /\ l.inst.Branch # l.inst.BaseBranch /\ l.inst.Branch # NoStr
    THEN "d_branch"
    ELSE "d_remove"

\* m.git.WorktreeRemove(instance.WorktreePath, force): git refuses a path it
\* does not list and, without -f, a worktree with local changes
DeleteWorktree(p) ==
    /\ pc[p] = "d_worktree"
    /\ LET l == loc[p]
           present == \E w \in worktrees : w.Path = l.inst.WorktreePath
       IN  \/ /\ present
              /\ worktrees' = WorktreesWithout(l.inst.WorktreePath)
              /\ Goto(p, AfterWorktree(l))
              /\ UNCHANGED loc
           \/ /\ ~present \/ ~l.force
              /\ UNCHANGED worktrees
              /\ IF l.force
                 THEN Goto(p, AfterWorktree(l)) /\ UNCHANGED loc
                 ELSE Fail(p, "external-tool-failed", "worktree")
    /\ UNCHANGED <<storeVars, expect, remote, tmuxVars, branches, last>>

\* git branch -D succeeds on a branch that exists and is not checked out
BranchDeleteOK(branch) == branch \in branches /\ ~CheckedOut(branch)

\* m.git.BranchDelete(instance.Branch, true)
DeleteBranch(p) ==
    /\ pc[p] = "d_branch"
    /\ LET l == loc[p]
       IN  IF BranchDeleteOK(l.inst.Branch)
           THEN /\ branches' = branches \ {l.inst.Branch}
                /\ Goto(p, "d_remove")
                /\ UNCHANGED loc
           ELSE /\ Fail(p, "external-tool-failed", "branch")
                /\ UNCHANGED branches
    /\ UNCHANGED <<storeVars, expect, remote, tmuxVars, worktrees, last>>

\* m.store.RemoveInstance(id)
DeleteRemove(p) ==
    /\ pc[p] = "d_remove"
    /\ loc' = [loc EXCEPT ![p].sop = "remove", ![p].cont = "d_removed"]
    /\ Goto(p, "store_load")
    /\ UNCHANGED <<storeVars, expect, remote, worldVars, last>>

DeleteRemoved(p) ==
    /\ pc[p] = "d_removed"
    /\ loc' = [loc EXCEPT ![p].cont = IF loc[p].err = "" THEN "ok" ELSE "store"]
    /\ Goto(p, "return")
    /\ UNCHANGED <<storeVars, expect, remote, worldVars, last>>

(* ----------------------------- reconcile ------------------------------- *)
\* Manager.Reconcile, steps 1-3: repair, prune (both succeed), Load
Reconcile(p) ==
    /\ pc[p] = "idle"
    /\ CanRLock
    /\ Begin(p, "reconcile", 0)
    /\ loc' = [loc EXCEPT ![p] =
            [NoLoc EXCEPT !.verb = "reconcile", !.cur = file.insts]]
    /\ Goto(p, "r_list")
    /\ UNCHANGED <<storeVars, expect, remote, worldVars>>

\* m.git.WorktreeList() and worktreeMap
ReconcileList(p) ==
    /\ pc[p] = "r_list"
    /\ loc' = [loc EXCEPT ![p].wts = {w.Path : w \in WorktreeList}]
    /\ Goto(p, "r_session")
    /\ UNCHANGED <<storeVars, expect, remote, worldVars, last>>

\* HasSession and ListWindows
ReconcileSession(p) ==
    /\ pc[p] = "r_session"
    /\ loc' = [loc EXCEPT ![p].sessionExists = HasSession,
                          ![p].windowMap = IF HasSession THEN WindowIDs ELSE {},
                          ![p].i = 1]
    /\ Goto(p, "r_scan")
    /\ UNCHANGED <<storeVars, expect, remote, worldVars, last>>

\* isProcessAlive(pid): false for pid <= 0, else kill(pid, 0) succeeds
isProcessAlive(pid) == pid > 0 /\ pid \in alive

\* the number of times the body of the loop counts the instance as fixed
FixedCount(inst, sessionExists, windowExists, pidAlive, paneDead) ==
    (IF (~sessionExists \/ ~windowExists) /\ inst.Status \in {"running", "paused"}
     THEN 1 ELSE 0)
    + (IF inst.Status = "running" /\ ~pidAlive THEN 1 ELSE 0)
    + (IF paneDead /\ inst.Status = "running" THEN 1 ELSE 0)

\* one iteration of the loop over currentState.Instances
ReconcileScan(p) ==
    /\ pc[p] = "r_scan"
    /\ loc[p].i <= Len(loc[p].cur)
    /\ LET l == loc[p]
           inst == l.cur[l.i]
           listed == l.sessionExists /\ inst.TmuxWindow \in l.windowMap
           there == inst.TmuxWindow \in WindowIDs
           pidAlive == inst.PID > 0 /\ isProcessAlive(inst.PID)
           paneDead == listed /\ there /\ inst.PrimaryPane \in deadPanes
           fixed == FixedCount(inst, l.sessionExists, listed, pidAlive, paneDead)
           tmuxErr(kind) == IF listed /\ ~there
                            THEN {[kind |-> kind, id |-> inst.ID]} ELSE {}
       IN  IF inst.WorktreePath \notin l.wts
           THEN /\ loc' = [loc EXCEPT
                      ![p].toRemove = Append(l.toRemove, inst.ID),
                      ![p].res.InstancesRemoved = @ + 1,
                      ![p].res.Errors = @ \cup tmuxErr("window"),
                      ![p].i = l.i + 1]
                /\ IF listed /\ there
                   THEN KillWindowEffect(inst.TmuxWindow)
                   ELSE UNCHANGED tmuxVars
           ELSE /\ loc' = [loc EXCEPT
                      ![p].toUpdate = IF fixed > 0 THEN @ \cup {inst.ID} ELSE @,
                      ![p].res.InstancesFixed = @ + fixed,
                      ![p].res.Errors = @ \cup tmuxErr("panes"),
                      ![p].i = l.i + 1]
                /\ UNCHANGED tmuxVars
    /\ UNCHANGED <<pc, storeVars, expect, remote, gitVars, last>>

\* the entries of a listing that are not marked bare: the entry of the
\* repository root carries the line "bare" when the repository is a bare one
NonBare(wts, bare) == IF bare THEN wts \ {RepoRoot} ELSE wts

\* a step 6 that reports every worktree of the listing that is not bare
ReconcileOrphansAll(p) ==
    /\ pc[p] = "r_scan"
    /\ loc[p].i > Len(loc[p].cur)
    /\ \E bare \in BOOLEAN :
         loc' = [loc EXCEPT
             ![p].res.OrphanedWorktrees = NonBare(loc[p].wts, bare),
             ![p].bare = bare]
    /\ Goto(p, "r_apply")
    /\ UNCHANGED <<storeVars, expect, remote, worldVars, last>>

\* step 6: worktrees in the listing, not bare, that no loaded record names
\* (wt.Bare of the root entry is looked at here for the first time)
ReconcileOrphans(p) ==
    /\ pc[p] = "r_scan"
    /\ loc[p].i > Len(loc[p].cur)
    /\ \E bare \in BOOLEAN :
         LET l == loc[p]
             stateWorktreePaths == {l.cur[j].WorktreePath : j \in 1..Len(l.cur)}
         IN  loc' = [loc EXCEPT
                 ![p].res.OrphanedWorktrees =
                     NonBare(l.wts, bare) \ stateWorktreePaths,
                 ![p].bare = bare]
    /\ Goto(p, "r_apply")
    /\ UNCHANGED <<storeVars, expect, remote, worldVars, last>>

\* a step 7 that applies the status updates and forgets the removals
ReconcileApplyNoRemove(p) ==
    /\ pc[p] = "r_apply"
    /\ LET l == loc[p]
       IN  IF l.toUpdate # {}
           THEN \E id \in l.toUpdate :
                  /\ loc' = [loc EXCEPT ![p].sop = "update", ![p].id = id,
                                        ![p].fn = SetStatus("error"),
                                        ![p].toUpdate = l.toUpdate \ {id},
                                        ![p].cont = "r_applied"]
                  /\ Goto(p, "store_load")
           ELSE /\ loc' = [loc EXCEPT ![p].cont = "ok"]
                /\ Goto(p, "return")
    /\ UNCHANGED <<storeVars, expect, remote, worldVars, last>>

\* step 7: the removals in order, then the updates in map order
ReconcileApply(p) ==
    /\ pc[p] = "r_apply"
    /\ LET l == loc[p]
       IN  IF l.toRemove # <<>>
           THEN /\ loc' = [loc EXCEPT ![p].sop = "remove",
                                      ![p].id = Head(l.toRemove),
                                      ![p].toRemove = Tail(l.toRemove),
                                      ![p].cont = "r_applied"]
                /\ Goto(p, "store_load")
           ELSE IF l.toUpdate # {}
           THEN \E id \in l.toUpdate :
                  /\ loc' = [loc EXCEPT ![p].sop = "update", ![p].id = id,
                                        ![p].fn = SetStatus("error"),
                                        ![p].toUpdate = l.toUpdate \ {id},
                                        ![p].cont = "r_applied"]
                  /\ Goto(p, "store_load")
           ELSE /\ loc' = [loc EXCEPT ![p].cont = "ok"]
                /\ Goto(p, "return")
    /\ UNCHANGED <<storeVars, expect, remote, worldVars, last>>

\* a failed removal or update is recorded in result.Errors
ReconcileApplied(p) ==
    /\ pc[p] = "r_applied"
    /\ loc' = [loc EXCEPT
            ![p].res.Errors =
                IF loc[p].err # ""
                THEN @ \cup {[kind |-> loc[p].sop, id |-> loc[p].id]}
                ELSE @,
            ![p].err = ""]
    /\ Goto(p, "r_apply")
    /\ UNCHANGED <<storeVars, expect, remote, worldVars, last>>

(* -------------------------- pause / resume ----------------------------- *)
\* syscall.Kill(pid, sig) with a real signal: ESRCH when no such process
\* exists; pid 0 names the process group of ocw itself
KillOK(pid) == IF pid > 0 THEN pid \in alive ELSE pid = 0

\* Manager.PauseInstance: Load, lookup, isProcessAlive
PauseInstance(p) ==
    /\ pc[p] = "idle"
    /\ CanRLock
    /\ \E id \in IDs :
         LET i == IndexOf(file.insts, id)
             err == IF i = 0 THEN "not-found"
                    ELSE IF ~isProcessAlive(file.insts[i].PID) THEN "not-alive"
                    ELSE ""
         IN  /\ Begin(p, "pause", id)
             /\ loc' = [loc EXCEPT ![p] =
                    [NoLoc EXCEPT !.verb = "pause", !.id = id, !.err = err,
                                  !.pid = IF i = 0 THEN 0 ELSE file.insts[i].PID,
                                  !.cont = IF err = "" THEN "idle" ELSE "probe"]]
             /\ Goto(p, IF err = "" THEN "p_signal" ELSE "return")
    /\ UNCHANGED <<storeVars, expect, remote, worldVars>>

\* Manager.ResumeInstance: Load, lookup (the process is not probed)
ResumeInstance(p) ==
    /\ pc[p] = "idle"
    /\ CanRLock
    /\ \E id \in IDs :
         LET i == IndexOf(file.insts, id)
         IN  /\ Begin(p, "resume", id)
             /\ loc' = [loc EXCEPT ![p] =
                    [NoLoc EXCEPT !.verb = "resume", !.id = id,
                                  !.err = IF i = 0 THEN "not-found" ELSE "",
                                  !.pid = IF i = 0 THEN 0 ELSE file.insts[i].PID,
                                  !.cont = IF i = 0 THEN "lookup" ELSE "idle"]]
             /\ Goto(p, IF i = 0 THEN "return" ELSE "p_signal")
    /\ UNCHANGED <<storeVars, expect, remote, worldVars>>

\* syscall.Kill(instance.PID, SIGSTOP / SIGCONT), then store.UpdateInstance
\* with the new status; a failed kill returns "failed to pause / resume
\* process"
SendSignal(p) ==
    /\ pc[p] = "p_signal"
    /\ LET l == loc[p]
       IN  IF KillOK(l.pid)
           THEN /\ loc' = [loc EXCEPT
                       ![p].signal = IF l.verb = "pause" THEN "SIGSTOP"
                                     ELSE "SIGCONT",
                       ![p].sop = "update",
                       ![p].fn = SetStatus(IF l.verb = "pause" THEN "paused"
                                           ELSE "running"),
                       ![p].cont = "return"]
                /\ Goto(p, "store_load")
           ELSE Fail(p, "external-tool-failed", "signal")
    /\ UNCHANGED <<storeVars, expect, remote, worldVars, last>>

(* ----------------------------- sub-panes ------------------------------- *)
\* const maxPanes of CreateSubTerminal
maxPanes == 6

\* CreateSubTerminal without the check of the cap
CreateSubTerminalNoCap(p) ==
    /\ pc[p] = "idle"
    /\ CanRLock
    /\ \E id \in IDs :
         LET i == IndexOf(file.insts, id)
             err == IF ~file.complete THEN "state-corrupt"
                    ELSE IF i = 0 THEN "not-found"
                    ELSE ""
         IN  /\ Begin(p, "create_sub_pane", id)
             /\ loc' = [loc EXCEPT ![p] =
                    [NoLoc EXCEPT !.verb = "create_sub_pane", !.id = id,
                                  !.err = err,
                                  !.inst = IF err = "" THEN file.insts[i]
                                           ELSE NoInst,
                                  !.cont = IF err = "" THEN "idle" ELSE "get"]]
             /\ Goto(p, IF err = "" THEN "s_split" ELSE "return")
    /\ UNCHANGED <<storeVars, expect, remote, worldVars>>

\* Manager.CreateSubTerminal: GetInstance (Load and lookup of the first
\* record with the id), then the cap on len(inst.SubTerminals)
CreateSubTerminal(p) ==
    /\ pc[p] = "idle"
    /\ CanRLock
    /\ \E id \in IDs :
         LET i == IndexOf(file.insts, id)
             err == IF ~file.complete THEN "state-corrupt"
                    ELSE IF i = 0 THEN "not-found"
                    ELSE IF Len(file.insts[i].SubTerminals) >= maxPanes
                    THEN "precondition-failed"
                    ELSE ""
         IN  /\ Begin(p, "create_sub_pane", id)
             /\ loc' = [loc EXCEPT ![p] =
                    [NoLoc EXCEPT !.verb = "create_sub_pane", !.id = id,
                                  !.err = err,
                                  !.inst = IF err = "" THEN file.insts[i]
                                           ELSE NoInst,
                                  !.cont = IF err = "" THEN "idle"
                                           ELSE IF err = "precondition-failed"
                                           THEN "cap" ELSE "get"]]
             /\ Goto(p, IF err = "" THEN "s_split" ELSE "return")
    /\ UNCHANGED <<storeVars, expect, remote, worldVars>>

\* m.tmux.SplitWindow(inst.TmuxWindow, ...): the id of the new pane, or an
\* error; then store.UpdateInstance appends the pane to SubTerminals
\* (config.SubTerminalInitCommand is empty, so no SendKeys)
SubTerminalSplit(p) ==
    /\ pc[p] = "s_split"
    /\ \/ /\ loc[p].inst.TmuxWindow \in WindowIDs
          /\ nextPane <= MaxPaneIDs
          /\ panes' = panes \cup {[ID |-> nextPane,
                                    Win |-> loc[p].inst.TmuxWindow]}
          /\ nextPane' = nextPane + 1
          /\ loc' = [loc EXCEPT ![p].pane = nextPane, ![p].sop = "update",
                                ![p].fn = AddSubTerminal(nextPane),
                                ![p].cont = "s_updated"]
          /\ Goto(p, "store_load")
       \/ /\ Fail(p, "external-tool-failed", "split")
          /\ UNCHANGED <<panes, nextPane>>
    /\ UNCHANGED <<storeVars, expect, remote, session, windows, nextWin, nextPid,
                   deadPanes, alive, gitVars, last>>

\* after UpdateInstance: on its error, _ = m.tmux.KillPane(newPaneID)
SubTerminalUpdated(p) ==
    /\ pc[p] = "s_updated"
    /\ IF loc[p].err # ""
       THEN /\ panes' = {sp \in panes : sp.ID # loc[p].pane}
            /\ loc' = [loc EXCEPT ![p].cont = "store"]
       ELSE /\ loc' = [loc EXCEPT ![p].cont = "ok"]
            /\ UNCHANGED panes
    /\ Goto(p, "return")
    /\ UNCHANGED <<storeVars, expect, remote, session, windows, nextWin, nextPid,
                   nextPane, deadPanes, alive, gitVars, last>>

\* Manager.KillSubTerminal: m.tmux.KillPane(paneID), whose error returns at
\* once, then store.UpdateInstance with the filter
KillSubTerminal(p) ==
    /\ pc[p] = "idle"
    /\ \E id \in IDs, paneID \in 1..MaxPaneIDs :
         /\ Begin(p, "kill_sub_pane", id)
         /\ IF \E sp \in panes : sp.ID = paneID
            THEN /\ panes' = {sp \in panes : sp.ID # paneID}
                 /\ loc' = [loc EXCEPT ![p] =
                        [NoLoc EXCEPT !.verb = "kill_sub_pane", !.id = id,
                                      !.pane = paneID, !.sop = "update",
                                      !.fn = RemoveSubTerminal(paneID),
                                      !.cont = "return"]]
                 /\ Goto(p, "store_load")
            ELSE /\ loc' = [loc EXCEPT ![p] =
                        [NoLoc EXCEPT !.verb = "kill_sub_pane", !.id = id,
                                      !.pane = paneID,
                                      !.err = "external-tool-failed",
                                      !.cont = "pane"]]
                 /\ Goto(p, "return")
                 /\ UNCHANGED panes
    /\ UNCHANGED <<storeVars, expect, remote, session, windows, nextWin, nextPid,
                   nextPane, deadPanes, alive, gitVars>>

(* ------------------------- recover from crash -------------------------- *)
\* Manager.RecoverFromCrash: Load
RecoverFromCrash(p) ==
    /\ pc[p] = "idle"
    /\ CanRLock
    /\ Begin(p, "recover", 0)
    /\ IF Len(file.insts) = 0
       THEN /\ loc' = [loc EXCEPT ![p] =
                   [NoLoc EXCEPT !.verb = "recover", !.cont = "empty"]]
            /\ Goto(p, "return")
       ELSE /\ loc' = [loc EXCEPT ![p] =
                   [NoLoc EXCEPT !.verb = "recover", !.cur = file.insts,
                                 !.i = 1]]
            /\ Goto(p, "x_has")
    /\ UNCHANGED <<storeVars, expect, remote, worldVars>>

\* m.tmux.HasSession(sessionName): nothing to recover when it exists
RecoverHasSession(p) ==
    /\ pc[p] = "x_has"
    /\ IF HasSession
       THEN /\ loc' = [loc EXCEPT ![p].cont = "session-exists"]
            /\ Goto(p, "return")
       ELSE /\ Goto(p, "ensure_has")
            /\ UNCHANGED loc
    /\ UNCHANGED <<storeVars, expect, remote, worldVars, last>>

\* the loop that marks every loaded instance as error
RecoverMark(p) ==
    /\ pc[p] = "x_mark"
    /\ LET l == loc[p]
       IN  IF l.i <= Len(l.cur)
           THEN /\ loc' = [loc EXCEPT ![p].sop = "update",
                                      ![p].id = l.cur[l.i].ID,
                                      ![p].fn = SetStatus("error"),
                                      ![p].i = l.i + 1,
                                      ![p].cont = "x_marked"]
                /\ Goto(p, "store_load")
           ELSE /\ loc' = [loc EXCEPT ![p].cont = "recovered"]
                /\ Goto(p, "return")
    /\ UNCHANGED <<storeVars, expect, remote, worldVars, last>>

RecoverMarked(p) ==
    /\ pc[p] = "x_marked"
    /\ IF loc[p].err # ""
       THEN /\ loc' = [loc EXCEPT ![p].cont = "store"]
            /\ Goto(p, "return")
       ELSE /\ Goto(p, "x_mark")
            /\ UNCHANGED loc
    /\ UNCHANGED <<storeVars, expect, remote, worldVars, last>>

(* --------------------------- dependencies ------------------------------ *)
\* depsMap of hasCycle: a later record with the same id overwrites the entry
DepsMap(instances) ==
    [id \in {instances[i].ID : i \in 1..Len(instances)} |->
        instances[LastIndexOf(instances, id)].DependsOn]

\* the loop of dfs(id) from its k-th dependency on; id is gray in color
RECURSIVE dfs(_, _, _, _)
dfs(depsMap, id, k, color) ==
    IF k > Len(depsMap[id])
    THEN [cycle |-> FALSE, color |-> [color EXCEPT ![id] = "black"]]
    ELSE LET dep == depsMap[id][k]
         IN  IF dep \notin DOMAIN depsMap
             THEN dfs(depsMap, id, k + 1, color)
             ELSE IF color[dep] = "gray"
             THEN [cycle |-> TRUE, color |-> color]
             ELSE IF color[dep] = "white"
             THEN LET r == dfs(depsMap, dep, 1, [color EXCEPT ![dep] = "gray"])
                  IN  IF r.cycle THEN r ELSE dfs(depsMap, id, k + 1, r.color)
             ELSE dfs(depsMap, id, k + 1, color)

\* the loop over idSet that starts dfs at every node that is still white
RECURSIVE dfsAll(_, _, _)
dfsAll(depsMap, todo, color) ==
    IF todo = {}
    THEN FALSE
    ELSE LET id == CHOOSE x \in todo : TRUE
         IN  IF color[id] = "white"
             THEN LET r == dfs(depsMap, id, 1, [color EXCEPT ![id] = "gray"])
                  IN  r.cycle \/ dfsAll(depsMap, todo \ {id}, r.color)
             ELSE dfsAll(depsMap, todo \ {id}, color)

hasCycle(instances) ==
    LET depsMap == DepsMap(instances)
    IN  dfsAll(depsMap, DOMAIN depsMap, [id \in DOMAIN depsMap |-> "white"])

\* Manager.AddDependency(instanceID, dependsOnID): Load, the checks, and the
\* modified document handed to Save
AddDependencyCall(p, instanceID, dependsOnID) ==
    /\ pc[p] = "idle"
    /\ CanRLock
    /\ LET st == file.insts
           i == LastIndexOf(st, instanceID)
           new == [st EXCEPT ![i].DependsOn = Append(@, dependsOnID)]
           err == IF instanceID = dependsOnID THEN "self"
                  ELSE IF i = 0 THEN "not-found"
                  ELSE IF LastIndexOf(st, dependsOnID) = 0 THEN "not-found"
                  ELSE IF dependsOnID \in Elems(st[i].DependsOn) THEN "exists"
                  ELSE IF hasCycle(new) THEN "cycle"
                  ELSE ""
       IN  /\ loc' = [loc EXCEPT ![p] =
                  [NoLoc EXCEPT !.verb = "add_dependency", !.id = instanceID,
                                !.dep = dependsOnID, !.err = err,
                                !.st = IF err = "" THEN new ELSE <<>>,
                                !.cont = "return"]]
           /\ Goto(p, IF err = "" THEN "store_save" ELSE "return")
    /\ UNCHANGED <<storeVars, expect, remote, worldVars>>

AddDependency(p) ==
    /\ \E instanceID \in IDs, dependsOnID \in IDs :
         AddDependencyCall(p, instanceID, dependsOnID)
    /\ UNCHANGED last

\* ocw depend <instance> <depends-on>: the command keeps what it was called
\* on until it has printed its result
dependCmd(p) ==
    \E instanceID \in IDs, dependsOnID \in IDs :
        /\ Begin(p, "add_dependency", instanceID)
        /\ AddDependencyCall(p, instanceID, dependsOnID)

\* Manager.RemoveDependency(instanceID, dependsOnID)
RemoveDependency(p) ==
    /\ pc[p] = "idle"
    /\ \E instanceID \in IDs, dependsOnID \in IDs :
         /\ loc' = [loc EXCEPT ![p] =
                [NoLoc EXCEPT !.verb = "remove_dependency", !.sop = "update",
                              !.id = instanceID, !.dep = dependsOnID,
                              !.fn = DropDependency(dependsOnID),
                              !.cont = "return"]]
         /\ Goto(p, "store_load")
    /\ UNCHANGED <<storeVars, expect, remote, worldVars, last>>

\* create, as the store sees it: GenerateID and store.AddInstance
CreateRecord(p) ==
    /\ pc[p] = "idle"
    /\ \E id \in IDs :
         /\ loc' = [loc EXCEPT ![p] =
                [NoLoc EXCEPT !.verb = "create", !.sop = "add", !.id = id,
                              !.inst = Instance(id, NoStr, NoStr, NoStr, 0, 0, 0),
                              !.cont = "return"]]
         /\ Goto(p, "store_load")
    /\ UNCHANGED <<storeVars, expect, remote, worldVars, last>>

\* delete, as the store sees it: store.RemoveInstance
DeleteRecord(p) ==
    /\ pc[p] = "idle"
    /\ \E id \in IDs :
         /\ loc' = [loc EXCEPT ![p] =
                [NoLoc EXCEPT !.verb = "delete", !.sop = "remove", !.id = id,
                              !.cont = "return"]]
         /\ Goto(p, "store_load")
    /\ UNCHANGED <<storeVars, expect, remote, worldVars, last>>

NextDeps ==
    \/ \E p \in Procs :
          \/ AddDependency(p)
          \/ RemoveDependency(p)
          \/ StoreLoad(p)
          \/ SaveWriteTmp(p)
          \/ SaveRename(p)
          \/ Return(p)
    \/ \E p \in Operator :
          \/ CreateRecord(p)
          \/ DeleteRecord(p)

\* two ocw processes edit the dependency graph of the same repository
\* while one of them also creates and deletes instances
SpecDeps == Init /\ [][NextDeps]_vars

(* ------------------------- topological sort ---------------------------- *)
\* the keys of idToInst and inDegree
SortIDs(instances) == {instances[i].ID : i \in 1..Len(instances)}

\* inDegree[id] after the second loop: one for every dependency entry, of
\* every record with that id, that names a key of idToInst
InDegree(instances) ==
    [id \in SortIDs(instances) |->
        Cardinality({ik \in UNION {{<<i, k>> : k \in 1..Len(instances[i].DependsOn)} :
                                      i \in 1..Len(instances)} :
            /\ instances[ik[1]].ID = id
            /\ instances[ik[1]].DependsOn[ik[2]] \in SortIDs(instances)})]

\* dependents[depID]: the ids appended in the order of the records, from
\* record i on
RECURSIVE Dependents(_, _, _)
Dependents(instances, depID, i) ==
    IF i > Len(instances) THEN <<>>
    ELSE SelectSeq([k \in 1..Len(instances[i].DependsOn) |->
                       IF instances[i].DependsOn[k] = depID
                       THEN instances[i].ID ELSE 0],
                   LAMBDA x : x # 0)
         \o Dependents(instances, depID, i + 1)

\* the inner loop of Kahn's algorithm over dependents[id], from entry k on
RECURSIVE relax(_, _, _, _)
relax(deps, k, inDegree, queue) ==
    IF k > Len(deps) THEN [queue |-> queue, inDegree |-> inDegree]
    ELSE LET n == inDegree[deps[k]] - 1
         IN  relax(deps, k + 1, [inDegree EXCEPT ![deps[k]] = n],
                   IF n = 0 THEN Append(queue, deps[k]) ELSE queue)

\* the outer loop: pop the head, append idToInst[id] (the last record with
\* that id) to sorted
RECURSIVE kahn(_, _, _, _)
kahn(instances, queue, inDegree, sorted) ==
    IF queue = <<>> THEN sorted
    ELSE LET id == Head(queue)
             r == relax(Dependents(instances, id, 1), 1, inDegree, Tail(queue))
         IN  kahn(instances, r.queue, r.inDegree,
                  Append(sorted, instances[LastIndexOf(instances, id)]))

\* the orders in which `for id, deg := range inDegree` can visit the ids
\* of degree zero: Go leaves the iteration order of a map unspecified
QueueOrders(S) ==
    {q \in [1..Cardinality(S) -> S] :
        \A a, b \in 1..Cardinality(S) : a # b => q[a] # q[b]}

\* TopologicalSort(instances): every result the call can return
TopologicalSort(instances) ==
    LET inDegree == InDegree(instances)
        zero == {id \in SortIDs(instances) : inDegree[id] = 0}
    IN  IF hasCycle(instances)
        THEN {[err |-> "cycle", sorted |-> <<>>]}
        ELSE {[err |-> "", sorted |-> kahn(instances, queue, inDegree, <<>>)] :
                 queue \in QueueOrders(zero)}

\* ocw depend list: ListInstances, then TopologicalSort of the list
dependListCmd(p) ==
    /\ pc[p] = "idle"
    /\ CanRLock
    /\ file.insts # <<>>
    /\ Begin(p, "topological_sort", 0)
    /\ \E r \in TopologicalSort(file.insts) :
         loc' = [loc EXCEPT ![p] =
             [NoLoc EXCEPT !.verb = "topological_sort", !.cur = file.insts,
                           !.err = r.err, !.sorted = r.sorted,
                           !.cont = IF r.err = "" THEN "ok" ELSE "cycle"]]
    /\ Goto(p, "return")
    /\ UNCHANGED <<storeVars, expect, remote, worldVars>>

\* the operator creates instances and records dependencies while two ocw
\* processes print the dependency order
NextSort ==
    \/ \E p \in Operator :
          \/ CreateRecord(p)
          \/ dependCmd(p)
          \/ StoreLoad(p)
          \/ SaveWriteTmp(p)
          \/ SaveRename(p)
    \/ \E p \in Procs :
          \/ dependListCmd(p)
          \/ Return(p)

SpecSort == Init /\ [][NextSort]_vars

(* ----------------------------- conflicts ------------------------------- *)
\* modifiedFiles of DetectConflicts: keyed by id, so a later instance with
\* the same id overwrites the entry; diff[i] is the output of DiffNameOnly
\* for instances[i] (a failed diff leaves no entry, which overlaps nothing)
ModifiedFiles(instances, diff) ==
    [id \in {instances[i].ID : i \in 1..Len(instances)} |->
        diff[LastIndexOf(instances, id)]]

hasOverlap(files1, files2) == files1 \cap files2 # {}

\* the two nested loops of DetectConflicts from the pair (i, j) on
RECURSIVE DetectFrom(_, _, _, _, _)
DetectFrom(instances, modifiedFiles, i, j, conflicts) ==
    IF i > Len(instances)
    THEN conflicts
    ELSE IF j > Len(instances)
    THEN DetectFrom(instances, modifiedFiles, i + 1, i + 2, conflicts)
    ELSE LET inst1 == instances[i]
             inst2 == instances[j]
             hit == /\ inst1.Branch # inst2.Branch
                    /\ hasOverlap(modifiedFiles[inst1.ID], modifiedFiles[inst2.ID])
             c1 == [conflicts EXCEPT ![inst1.ID] = Append(@, inst2.ID)]
             c2 == [c1 EXCEPT ![inst2.ID] = Append(@, inst1.ID)]
         IN  DetectFrom(instances, modifiedFiles, i, j + 1,
                        IF hit THEN c2 ELSE conflicts)

\* ConflictDetector.DetectConflicts: instance id -> ids it conflicts with
DetectConflicts(instances, diff) ==
    LET modifiedFiles == ModifiedFiles(instances, diff)
    IN  DetectFrom(instances, modifiedFiles, 1, 2,
                   [id \in DOMAIN modifiedFiles |-> <<>>])

\* ConflictDetector.UpdateInstanceConflicts(store, instances) on the
\* instances its caller has just loaded: DetectConflicts
UpdateInstanceConflicts(p) ==
    /\ pc[p] = "idle"
    /\ CanRLock
    /\ file.insts # <<>>
    /\ \E diff \in [1..Len(file.insts) -> SUBSET Files] :
         /\ Begin(p, "update_conflicts", 0)
         /\ loc' = [loc EXCEPT ![p] =
                [NoLoc EXCEPT !.verb = "update_conflicts", !.cur = file.insts,
                              !.conflicts = DetectConflicts(file.insts, diff),
                              !.i = 1]]
         /\ Goto(p, "u_update")
    /\ UNCHANGED <<storeVars, expect, remote, worldVars>>

\* the loop of UpdateInstanceConflicts: one store.UpdateInstance each
ConflictUpdate(p) ==
    /\ pc[p] = "u_update"
    /\ LET l == loc[p]
       IN  IF l.i <= Len(l.cur)
           THEN /\ loc' = [loc EXCEPT
                      ![p].sop = "update", ![p].id = l.cur[l.i].ID,
                      ![p].fn = SetConflicts(l.conflicts[l.cur[l.i].ID]),
                      ![p].i = l.i + 1, ![p].cont = "u_updated"]
                /\ Goto(p, "store_load")
           ELSE /\ loc' = [loc EXCEPT ![p].cont = "ok"]
                /\ Goto(p, "return")
    /\ UNCHANGED <<storeVars, expect, remote, worldVars, last>>

\* the first failed update ends the loop
ConflictUpdated(p) ==
    /\ pc[p] = "u_updated"
    /\ IF loc[p].err # ""
       THEN /\ loc' = [loc EXCEPT ![p].cont = "store"]
            /\ Goto(p, "return")
       ELSE /\ Goto(p, "u_update")
            /\ UNCHANGED loc
    /\ UNCHANGED <<storeVars, expect, remote, worldVars, last>>

(* ------------------------------- merge --------------------------------- *)
\* a CheckDependenciesMerged that does not look at the status
CheckDependenciesAnyStatus(instances, instanceID) ==
    LET instance == instances[LastIndexOf(instances, instanceID)]
    IN  SelectSeq(instance.DependsOn,
            LAMBDA depID : LastIndexOf(instances, depID) # 0)

\* Manager.CheckDependenciesMerged: the dependencies of the instance that
\* are stored and neither merged nor done (instanceMap is keyed by id)
CheckDependenciesMerged(instances, instanceID) ==
    LET instance == instances[LastIndexOf(instances, instanceID)]
    IN  SelectSeq(instance.DependsOn,
            LAMBDA depID :
                /\ LastIndexOf(instances, depID) # 0
                /\ instances[LastIndexOf(instances, depID)].Status
                       \notin {"merged", "done"})

\* the URL the review tool prints for the branch
PRUrlOf(branch) == <<"u">> \o branch

\* what git prints for merge-base and merge-tree --write-tree: whether
\* merge-base succeeds, the exit code of merge-tree and its output lines,
\* each line a sequence of the pieces the parser looks for
ProbeOutputs ==
    LET LineTree == <<"tree">>
        LineAuto == <<"Auto-merging ", "p">>
        LineContent ==
            <<"CONFLICT", " (content): ", "Merge conflict in ", "p">>
        LineModifyDelete ==
            <<"CONFLICT", " (modify/delete): ", "p", " deleted in HEAD">>
        LineFatal == <<"fatal: ">>
    IN  {[mergeBase |-> FALSE, exit |-> 128, lines |-> <<LineFatal>>],
         [mergeBase |-> TRUE, exit |-> 0, lines |-> <<LineTree>>],
         [mergeBase |-> TRUE, exit |-> 1, lines |-> <<LineTree, LineContent>>],
         [mergeBase |-> TRUE, exit |-> 1,
          lines |-> <<LineTree, LineAuto, LineContent>>],
         [mergeBase |-> TRUE, exit |-> 1,
          lines |-> <<LineTree, LineAuto, LineModifyDelete>>],
         [mergeBase |-> TRUE, exit |-> 1,
          lines |-> <<LineTree, LineModifyDelete>>],
         [mergeBase |-> TRUE, exit |-> 128, lines |-> <<LineFatal>>]}

\* strings.HasPrefix(line, prefix)
HasPrefix(line, prefix) == line # <<>> /\ line[1] = prefix

\* strings.Split(line, "Merge conflict in ")[1]: what follows the marker
AfterMarker(line) ==
    LET k == CHOOSE i \in 1..Len(line) : line[i] = "Merge conflict in "
    IN  IF k < Len(line) THEN line[k + 1] ELSE ""

\* the conflictFiles MergeTree collects from the output lines
RECURSIVE ParseConflictFiles(_)
ParseConflictFiles(lines) ==
    IF lines = <<>> THEN <<>>
    ELSE LET line == Head(lines)
             rest == ParseConflictFiles(Tail(lines))
         IN  IF /\ HasPrefix(line, "CONFLICT")
                /\ \E i \in 1..Len(line) : line[i] = "Merge conflict in "
             THEN <<AfterMarker(line)>> \o rest
             ELSE rest

\* Git.MergeTree: exit code 0 is a clean merge; otherwise the parsed
\* conflict files, an error when nothing could be parsed and no
\* "Auto-merging" line was seen, and else conflicts without file names
MergeTree(out) ==
    LET conflictFiles == ParseConflictFiles(out.lines)
        infoMarkerSeen ==
            \E i \in 1..Len(out.lines) :
                /\ ~HasPrefix(out.lines[i], "CONFLICT")
                /\ HasPrefix(out.lines[i], "Auto-merging ")
    IN  IF out.exit = 0
        THEN [err |-> FALSE, Clean |-> TRUE, ConflictFiles |-> <<>>]
        ELSE IF Len(conflictFiles) > 0
        THEN [err |-> FALSE, Clean |-> FALSE, ConflictFiles |-> conflictFiles]
        ELSE IF ~infoMarkerSeen
        THEN [err |-> TRUE, Clean |-> FALSE, ConflictFiles |-> <<>>]
        ELSE [err |-> FALSE, Clean |-> FALSE, ConflictFiles |-> <<>>]

\* Git.HasConflicts, as CheckMergeConflicts returns it:
\* (hasConflicts, conflictFiles, err)
HasConflicts(out) ==
    IF ~out.mergeBase
    THEN [err |-> TRUE, hasConflicts |-> FALSE, conflictFiles |-> <<>>]
    ELSE LET result == MergeTree(out)
         IN  IF result.err
             THEN [err |-> TRUE, hasConflicts |-> FALSE, conflictFiles |-> <<>>]
             ELSE [err |-> FALSE, hasConflicts |-> ~result.Clean,
                   conflictFiles |-> result.ConflictFiles]

\* an ocw merge that goes on to push whatever the probe said
mergeCmdNoGate(p) ==
    /\ pc[p] = "idle"
    /\ CanRLock
    /\ \E id \in IDs, out \in ProbeOutputs :
         LET i == IndexOf(file.insts, id)
             probe == HasConflicts(out)
         IN  /\ Begin(p, "merge", id)
             /\ loc' = [loc EXCEPT ![p] =
                    [NoLoc EXCEPT !.verb = "merge", !.id = id,
                                  !.hasConflicts = i # 0 /\ probe.hasConflicts,
                                  !.conflictFiles =
                                      IF i = 0 THEN <<>> ELSE probe.conflictFiles,
                                  !.err = IF i = 0 THEN "not-found" ELSE "",
                                  !.cont = "checks"]]
             /\ Goto(p, IF i = 0 THEN "return" ELSE "m_push")
    /\ UNCHANGED <<storeVars, expect, remote, worldVars>>

\* ocw merge <id>: Load, lookup, CheckMergeConflicts, DetectPRTool
mergeCmd(p) ==
    /\ pc[p] = "idle"
    /\ CanRLock
    /\ \E id \in IDs, out \in ProbeOutputs :
         LET i == IndexOf(file.insts, id)
             probe == HasConflicts(out)
             err == IF i = 0 THEN "not-found"
                    ELSE IF probe.err THEN "external-tool-failed"
                    ELSE IF probe.hasConflicts THEN "merge-has-conflicts"
                    ELSE ""
         IN  /\ Begin(p, "merge", id)
             /\ loc' = [loc EXCEPT ![p] =
                    [NoLoc EXCEPT !.verb = "merge", !.id = id,
                                  !.hasConflicts = i # 0 /\ probe.hasConflicts,
                                  !.conflictFiles =
                                      IF i = 0 THEN <<>> ELSE probe.conflictFiles,
                                  !.err = err,
                                  !.cont = "checks"]]
             /\ Goto(p, IF err # "" THEN "return" ELSE "m_push")
    /\ UNCHANGED <<storeVars, expect, remote, worldVars>>

\* the merge view of the TUI is opened on a stored instance: Merge.Init runs
\* checkConflicts and checkDependencies, Merge.Update records their results
\* (a failed conflict check leaves hasConflicts false)
MergeInit(p) ==
    /\ pc[p] = "idle"
    /\ CanRLock
    /\ \E id \in IDs, out \in ProbeOutputs :
         /\ IndexOf(file.insts, id) # 0
         /\ Begin(p, "merge_view", id)
         /\ loc' = [loc EXCEPT ![p] =
                [NoLoc EXCEPT !.verb = "merge_view", !.id = id,
                              !.hasConflicts = HasConflicts(out).hasConflicts,
                              !.conflictFiles = HasConflicts(out).conflictFiles,
                              !.unmergedDeps =
                                  CheckDependenciesMerged(file.insts, id)]]
         /\ Goto(p, "v_form")
    /\ UNCHANGED <<storeVars, expect, remote, worldVars>>

\* Merge.Update on the key that completes the form (performMerge follows
\* only when the checks allow it), or the operator leaves the view
MergeUpdate(p) ==
    /\ pc[p] = "v_form"
    /\ \/ /\ ~loc[p].hasConflicts
          /\ Len(loc[p].unmergedDeps) = 0
          /\ Goto(p, "m_push")
          /\ UNCHANGED loc
       \/ /\ loc' = [loc EXCEPT ![p].cont = "left"]
          /\ Goto(p, "return")
    /\ UNCHANGED <<storeVars, expect, remote, worldVars, last>>

\* Manager.PushBranch: Load, lookup, git push origin <branch>
PushBranch(p) ==
    /\ pc[p] = "m_push"
    /\ CanRLock
    /\ LET i == IndexOf(file.insts, loc[p].id)
       IN  \/ /\ i # 0
              /\ remote' = [remote EXCEPT !.pushed = @ \cup {file.insts[i].Branch}]
              /\ Goto(p, "m_pr")
              /\ UNCHANGED loc
           \/ /\ Fail(p, IF i = 0 THEN "not-found" ELSE "external-tool-failed",
                      "push")
              /\ UNCHANGED remote
    /\ UNCHANGED <<storeVars, expect, worldVars, last>>

\* what gh pr create / glab mr create print for the branch, after
\* strings.Split(strings.TrimSpace(output), "\n"): the exit code and the
\* lines, each line a sequence of the pieces the parser looks for (an empty
\* output splits into one empty line)
PublishOutputs(branch) ==
    LET LineURL == <<"http">> \o PRUrlOf(branch)
    IN  {[exit |-> 0, lines |-> <<<<"Creating pull request">>, LineURL>>],
         [exit |-> 0, lines |-> <<LineURL, <<"done">>>>],
         [exit |-> 0, lines |-> <<<<"Warning: ">>>>],
         [exit |-> 0, lines |-> <<<<>>>>],
         [exit |-> 1, lines |-> <<<<"error">>>>]}

\* strings.TrimSpace(line)
TrimSpace(line) == TrimRight(TrimLeft(line, {" "}), {" "})

\* the loop from the last line down: the index of the last line with the
\* prefix http, 0 if there is none
LastHTTPLine(lines) ==
    LET hits == {i \in 1..Len(lines) : HasPrefix(lines[i], "http")}
    IN  IF hits = {} THEN 0 ELSE CHOOSE i \in hits : \A j \in hits : j <= i

\* Manager.createGitHubPR: the trimmed last line, or, when that is no URL,
\* the last line with the prefix http if there is one
createGitHubPR(out) ==
    LET lines == out.lines
        lastLine == TrimSpace(lines[Len(lines)])
        k == LastHTTPLine(lines)
    IN  IF out.exit # 0 THEN [err |-> TRUE, url |-> NoStr]
        ELSE IF HasPrefix(lastLine, "http") \/ k = 0
        THEN [err |-> FALSE, url |-> lastLine]
        ELSE [err |-> FALSE, url |-> TrimSpace(lines[k])]

\* Manager.createGitLabMR: the last line with the prefix http, else an error
createGitLabMR(out) ==
    LET k == LastHTTPLine(out.lines)
    IN  IF out.exit # 0 \/ k = 0 THEN [err |-> TRUE, url |-> NoStr]
        ELSE [err |-> FALSE, url |-> TrimSpace(out.lines[k])]

\* Manager.CreatePR: Load, lookup, DetectPRTool, the review tool, then
\* UpdateInstance with the URL the tool's output was parsed to
CreatePR(p) ==
    /\ pc[p] = "m_pr"
    /\ CanRLock
    /\ LET i == IndexOf(file.insts, loc[p].id)
       IN  IF i = 0
           THEN /\ Fail(p, "not-found", "pr")
                /\ UNCHANGED remote
           ELSE \E tool \in {"gh", "glab", "none"},
                   out \in PublishOutputs(file.insts[i].Branch) :
                  LET r == IF tool = "gh" THEN createGitHubPR(out)
                           ELSE createGitLabMR(out)
                  IN  IF tool = "none"
                      THEN /\ Fail(p, "external-tool-failed", "tool")
                           /\ UNCHANGED remote
                      ELSE /\ remote' = IF out.exit = 0
                                        THEN [remote EXCEPT !.prs =
                                                 @ \cup {file.insts[i].Branch}]
                                        ELSE remote
                           /\ IF r.err
                              THEN /\ loc' = [loc EXCEPT
                                         ![p].err = "external-tool-failed",
                                         ![p].cont = "pr",
                                         ![p].prTool = tool, ![p].prOut = out]
                                   /\ Goto(p, "return")
                              ELSE /\ loc' = [loc EXCEPT
                                         ![p].sop = "update",
                                         ![p].fn = SetMerged(r.url),
                                         ![p].cont = "return",
                                         ![p].prTool = tool, ![p].prOut = out]
                                   /\ Goto(p, "store_load")
    /\ UNCHANGED <<storeVars, expect, worldVars, last>>

\* CreatePR, as the store sees it: UpdateInstance sets PRUrl and "merged"
CreatePRRecord(p) ==
    /\ pc[p] = "idle"
    /\ \E id \in IDs :
         /\ loc' = [loc EXCEPT ![p] =
                [NoLoc EXCEPT !.verb = "merge", !.sop = "update", !.id = id,
                              !.fn = SetMerged(<<"u">>),
                              !.cont = "return"]]
         /\ Goto(p, "store_load")
    /\ UNCHANGED <<storeVars, expect, remote, worldVars, last>>

\* Merge.checkDependencies: m.manager.CheckDependenciesMerged(m.instance.ID)
\* for an instance of the loaded list
checkDependencies(p) ==
    /\ pc[p] = "idle"
    /\ CanRLock
    /\ \E id \in IDs :
         /\ IndexOf(file.insts, id) # 0
         /\ Begin(p, "check_dependencies", id)
         /\ loc' = [loc EXCEPT ![p] =
                [NoLoc EXCEPT !.verb = "check_dependencies", !.id = id,
                              !.unmergedDeps =
                                  CheckDependenciesMerged(file.insts, id),
                              !.cont = "ok"]]
         /\ Goto(p, "return")
    /\ UNCHANGED <<storeVars, expect, remote, worldVars>>

NextGraph ==
    \E p \in Operator :
        \/ CreateRecord(p)
        \/ DeleteRecord(p)
        \/ CreatePRRecord(p)
        \/ dependCmd(p)
        \/ RemoveDependency(p)
        \/ checkDependencies(p)
        \/ StoreLoad(p)
        \/ SaveWriteTmp(p)
        \/ SaveRename(p)
        \/ Return(p)

\* one ocw process creates, merges and deletes instances, edits the
\* dependency graph and asks for the unmerged dependencies
SpecGraph == Init /\ [][NextGraph]_vars

(* --------------------------- environment ------------------------------- *)
\* the tmux server goes away and the processes in its panes with it; the
\* next server numbers its windows from the start again
EnvKillSession ==
    /\ session
    /\ session' = FALSE
    /\ windows' = {}
    /\ nextWin' = 1
    /\ nextPane' = 1
    /\ panes' = {}
    /\ deadPanes' = {}
    /\ alive' = {}
    /\ UNCHANGED <<storeVars, procVars, expect, remote, nextPid, gitVars, last>>

\* the operator removes a worktree by hand
EnvRemoveWorktree ==
    /\ \E w \in worktrees : worktrees' = worktrees \ {w}
    /\ UNCHANGED <<storeVars, procVars, expect, remote, tmuxVars, branches, last>>

\* the process of a primary pane exits; remain-on-exit keeps the pane
EnvPaneDies ==
    /\ \E w \in windows :
         /\ w.ID \notin deadPanes
         /\ deadPanes' = deadPanes \cup {w.ID}
         /\ alive' = alive \ {w.PID}
    /\ UNCHANGED <<storeVars, procVars, expect, remote, session, windows, nextWin,
                   nextPid, nextPane, panes, gitVars, last>>

\* the operator closes a sub-pane from inside tmux
EnvPaneCloses ==
    /\ \E sp \in panes : panes' = panes \ {sp}
    /\ UNCHANGED <<storeVars, procVars, expect, remote, session, windows, nextWin,
                   nextPid, nextPane, deadPanes, alive, gitVars, last>>

\* a worktree nobody asked ocw for: the operator runs git worktree add by
\* hand
OtherWorktree == [Path |-> RepoRoot \o <<"o">>, Branch |-> <<"o">>]

EnvAddWorktree ==
    /\ OtherWorktree \notin worktrees
    /\ worktrees' = worktrees \cup {OtherWorktree}
    /\ branches' = branches \cup {OtherWorktree.Branch}
    /\ UNCHANGED <<storeVars, procVars, expect, remote, tmuxVars, last>>

(* ------------------- callers of the store operations ------------------- *)
\* what process p's own record looks like in the document
Seen(p) ==
    LET i == IndexOf(file.insts, p)
    IN  IF i = 0 THEN "absent" ELSE file.insts[i].Status

CallStore(p, sop, inst, fn) ==
    /\ loc' = [loc EXCEPT ![p] =
            [NoLoc EXCEPT !.sop = sop, !.id = p, !.inst = inst, !.fn = fn,
                          !.cont = "store_ret"]]
    /\ Goto(p, "store_load")
    /\ UNCHANGED <<storeVars, expect, remote, worldVars, last>>

\* Store.AddInstance(inst), inst.ID = p
AddInstance(p) ==
    /\ pc[p] = "idle"
    /\ expect[p] \in {"none", "absent"}
    /\ Seen(p) = "absent"
    /\ CallStore(p, "add", Instance(p, NoStr, NoStr, NoStr, 0, 0, 0), NoFn)

\* Store.RemoveInstance(id), id = p
RemoveInstance(p) ==
    /\ pc[p] = "idle"
    /\ expect[p] \notin {"none", "absent"}
    /\ CallStore(p, "remove", NoInst, NoFn)

\* Store.UpdateInstance(id, fn), id = p
UpdateInstance(p) ==
    /\ pc[p] = "idle"
    /\ expect[p] \notin {"none", "absent"}
    /\ CallStore(p, "update", NoInst, SetStatus("paused"))

\* the store operation returns to its caller
StoreReturn(p) ==
    /\ pc[p] = "store_ret"
    /\ expect' = [expect EXCEPT ![p] =
            IF loc[p].err # "" THEN @
            ELSE CASE loc[p].sop = "add" -> "running"
                   [] loc[p].sop = "remove" -> "absent"
                   [] OTHER -> loc[p].fn.arg]
    /\ loc' = [loc EXCEPT ![p] = NoLoc]
    /\ Goto(p, "idle")
    /\ UNCHANGED <<storeVars, remote, worldVars, last>>

NextStore ==
    \E p \in Procs :
        \/ AddInstance(p)
        \/ RemoveInstance(p)
        \/ UpdateInstance(p)
        \/ StoreLoad(p)
        \/ SaveWriteTmp(p)
        \/ SaveRename(p)
        \/ StoreReturn(p)
        \/ Crash(p)
        \/ Restart(p)

SpecStore == Init /\ [][NextStore]_vars

Quiescent == \A p \in Procs : pc[p] = "idle"

(* --------------------------- the lifecycle ----------------------------- *)
StoreSteps(p) ==
    \/ StoreLoad(p)
    \/ SaveWriteTmp(p)
    \/ SaveRename(p)

CreateSteps(p) ==
    \/ CreateInstance(p)
    \/ EnsureSessionHas(p)
    \/ EnsureSessionNew(p)
    \/ CreateBranchExists(p)
    \/ CreateWorktree(p)
    \/ CreateWindow(p)
    \/ CreateSetup(p)
    \/ CreateAdd(p)
    \/ CreateAdded(p)
    \/ CreateUndoWindow(p)
    \/ CreateUndoWorktree(p)

DeleteSteps(p) ==
    \/ DeleteInstance(p)
    \/ DeleteKillPanes(p)
    \/ DeleteKillWindow(p)
    \/ DeleteWorktree(p)
    \/ DeleteBranch(p)
    \/ DeleteRemove(p)
    \/ DeleteRemoved(p)

ReconcileSteps(p) ==
    \/ Reconcile(p)
    \/ ReconcileList(p)
    \/ ReconcileSession(p)
    \/ ReconcileScan(p)
    \/ ReconcileOrphans(p)
    \/ ReconcileApply(p)
    \/ ReconcileApplied(p)

Next ==
    \/ \E p \in Operator :
          \/ StoreSteps(p)
          \/ CreateSteps(p)
          \/ DeleteSteps(p)
          \/ ReconcileSteps(p)
          \/ Return(p)
    \/ EnvKillSession

Spec == Init /\ [][Next]_vars

\* instances are created and their conflicts recorded
NextConflicts ==
    \E p \in Operator :
        \/ CreateSteps(p)
        \/ StoreSteps(p)
        \/ UpdateInstanceConflicts(p)
        \/ ConflictUpdate(p)
        \/ ConflictUpdated(p)
        \/ Return(p)

SpecConflicts == Init /\ [][NextConflicts]_vars

\* instances are created, made to depend on each other and merged, from
\* the command line and from the merge view
NextMerge ==
    \E p \in Operator :
        \/ CreateSteps(p)
        \/ StoreSteps(p)
        \/ AddDependency(p)
        \/ mergeCmd(p)
        \/ MergeInit(p)
        \/ MergeUpdate(p)
        \/ PushBranch(p)
        \/ CreatePR(p)
        \/ Return(p)

SpecMerge == Init /\ [][NextMerge]_vars

\* instances are created, paused and resumed while agent processes exit
\* and the tmux server may go away
NextSignals ==
    \/ \E p \in Operator :
          \/ StoreSteps(p)
          \/ CreateSteps(p)
          \/ PauseInstance(p)
          \/ ResumeInstance(p)
          \/ SendSignal(p)
          \/ Return(p)
    \/ EnvKillSession
    \/ EnvPaneDies

SpecSignals == Init /\ [][NextSignals]_vars

\* instances are created and reconciled while the operator removes
\* worktrees by hand and the tmux server may go away
NextReconcile ==
    \/ \E p \in Operator :
          \/ StoreSteps(p)
          \/ CreateSteps(p)
          \/ ReconcileSteps(p)
          \/ Return(p)
    \/ EnvKillSession
    \/ EnvRemoveWorktree

SpecReconcile == Init /\ [][NextReconcile]_vars

\* instances are created and sub-panes are split off their windows
NextPanes ==
    \/ \E p \in Operator :
          \/ StoreSteps(p)
          \/ CreateSteps(p)
          \/ CreateSubTerminal(p)
          \/ SubTerminalSplit(p)
          \/ SubTerminalUpdated(p)
          \/ Return(p)

SpecPanes == Init /\ [][NextPanes]_vars

\* the operator creates the first instance of the repository
CreateFirst(p) ==
    /\ file.insts = <<>>
    /\ CreateInstance(p)

\* a second ocw process asks for a sub-pane when some instance has one
\* place left
CreateSubTerminalLate(q) ==
    /\ \E i \in 1..Len(file.insts) :
          Len(file.insts[i].SubTerminals) = maxPanes - 1
    /\ CreateSubTerminal(q)

\* the operator creates an instance and splits sub-panes off its window;
\* a second ocw process joins in for the last place
NextSplitters ==
    \/ \E p \in Operator :
          \/ CreateFirst(p)
          \/ EnsureSessionHas(p)
          \/ EnsureSessionNew(p)
          \/ CreateBranchExists(p)
          \/ CreateWorktree(p)
          \/ CreateWindow(p)
          \/ CreateSetup(p)
          \/ CreateAdd(p)
          \/ CreateAdded(p)
          \/ CreateUndoWindow(p)
          \/ CreateUndoWorktree(p)
          \/ CreateSubTerminal(p)
    \/ \E q \in Procs \ Operator : CreateSubTerminalLate(q)
    \/ \E p \in Procs :
          \/ StoreSteps(p)
          \/ SubTerminalSplit(p)
          \/ SubTerminalUpdated(p)
          \/ Return(p)

SpecSplitters == Init /\ [][NextSplitters]_vars

\* SplitWindow while the server has handed out few pane ids
SubTerminalSplitFew(p) ==
    /\ nextPane <= MaxKillPanes
    /\ SubTerminalSplit(p)

\* sub-panes are split off the windows of the instances, closed by the
\* operator inside tmux, and killed through ocw
NextSubKill ==
    \/ \E p \in Operator :
          \/ StoreSteps(p)
          \/ CreateSteps(p)
          \/ CreateSubTerminal(p)
          \/ SubTerminalSplitFew(p)
          \/ SubTerminalUpdated(p)
          \/ KillSubTerminal(p)
          \/ Return(p)
    \/ EnvPaneCloses

SpecSubKill == Init /\ [][NextSubKill]_vars

\* two ocw processes ask for the session of the repository while the
\* operator creates instances
NextSession ==
    \/ \E p \in Procs :
          \/ EnsureSession(p)
          \/ EnsureSessionHas(p)
          \/ EnsureSessionNew(p)
          \/ Return(p)
    \/ \E p \in Operator :
          \/ StoreSteps(p)
          \/ CreateInstance(p)
          \/ CreateBranchExists(p)
          \/ CreateWorktree(p)
          \/ CreateWindow(p)
          \/ CreateSetup(p)
          \/ CreateAdd(p)
          \/ CreateAdded(p)
          \/ CreateUndoWindow(p)
          \/ CreateUndoWorktree(p)

SpecSession == Init /\ [][NextSession]_vars

\* instances are created, paused, resumed, published and reconciled while
\* agent processes exit and the tmux server may go away
NextRepair ==
    \/ NextSignals
    \/ \E p \in Operator :
          \/ ReconcileSteps(p)
          \/ CreatePRRecord(p)

SpecRepair == Init /\ [][NextRepair]_vars

\* instances are created and reconciled while the operator adds and
\* removes worktrees by hand
NextOrphans ==
    \/ \E p \in Operator :
          \/ StoreSteps(p)
          \/ CreateSteps(p)
          \/ ReconcileSteps(p)
          \/ Return(p)
    \/ EnvAddWorktree
    \/ EnvRemoveWorktree

SpecOrphans == Init /\ [][NextOrphans]_vars

(* ------------------------- reconcile twice ----------------------------- *)
\* the operator runs Reconcile a second time as soon as a first run has
\* returned (ocw is started, quit and started again)
ReconcileAgain(p) ==
    /\ pc[p] = "return"
    /\ loc[p].verb = "reconcile" /\ ~loc[p].again
    /\ CanRLock
    /\ Begin(p, "reconcile", 0)
    /\ loc' = [loc EXCEPT ![p] =
            [NoLoc EXCEPT !.verb = "reconcile", !.cur = file.insts,
                          !.again = TRUE]]
    /\ Goto(p, "r_list")
    /\ UNCHANGED <<storeVars, expect, remote, worldVars>>

\* outside changes that happen while no reconcile is under way
EnvBeforeReconcile ==
    /\ \A p \in Procs : loc[p].verb # "reconcile"
    /\ \/ EnvKillSession
       \/ EnvRemoveWorktree
       \/ EnvPaneDies

\* instances are created; the tmux server, a worktree or an agent process
\* goes away; then reconcile is run twice in a row
NextTwice ==
    \/ \E p \in Operator :
          \/ StoreSteps(p)
          \/ CreateSteps(p)
          \/ ReconcileSteps(p)
          \/ ReconcileAgain(p)
          \/ Return(p)
    \/ EnvBeforeReconcile

SpecTwice == Init /\ [][NextTwice]_vars

(* ------------------------ branch deletion ------------------------------ *)
\* the values of --base: the configured base branch (the default) or one of
\* the branch names
BaseInputs == {Base} \cup BranchNames

\* ocw new <branch> --base <base>: CreateInstance with opts.BaseBranch
\* given by the caller
newCmdBase(p) ==
    /\ pc[p] = "idle"
    /\ \E branch \in BranchNames, base \in BaseInputs, id \in IDs :
         /\ Begin(p, "create", id)
         /\ loc' = [loc EXCEPT ![p] =
                [NoLoc EXCEPT !.verb = "create", !.id = id,
                              !.branch = branch, !.base = base,
                              !.path = WorktreePathOf(branch)]]
         /\ Goto(p, "ensure_has")
    /\ UNCHANGED <<storeVars, expect, remote, worldVars>>

\* instances are created from a base branch of the caller's choice and
\* deleted with or without their branch
NextBranch ==
    \E p \in Operator :
       \/ StoreSteps(p)
       \/ newCmdBase(p)
       \/ EnsureSessionHas(p)
       \/ EnsureSessionNew(p)
       \/ CreateBranchExists(p)
       \/ CreateWorktree(p)
       \/ CreateWindow(p)
       \/ CreateSetup(p)
       \/ CreateAdd(p)
       \/ CreateAdded(p)
       \/ CreateUndoWindow(p)
       \/ CreateUndoWorktree(p)
       \/ DeleteSteps(p)
       \/ Return(p)

SpecBranch == Init /\ [][NextBranch]_vars

(* ------------------------- worktree path ------------------------------- *)
\* the non-empty branch names of at most MaxLen characters
BranchInputs ==
    UNION {[1..n -> BranchChars] : n \in 1..MaxLen}

\* the operator is about to ask for an instance on one of those names
InitPath ==
    /\ file = NoFile /\ tmp = NoFile /\ lock = 0
    /\ pc = [p \in Procs |-> "idle"]
    /\ \E b \in BranchInputs :
          loc = [p \in Procs |-> IF p \in Operator
                                 THEN [NoLoc EXCEPT !.branch = b] ELSE NoLoc]
    /\ expect = [p \in Procs |-> "none"]
    /\ session = FALSE /\ windows = {} /\ panes = {} /\ deadPanes = {}
    /\ nextWin = 1 /\ nextPid = 1 /\ nextPane = 1 /\ alive = {}
    /\ worktrees = {} /\ branches = {Base}
    /\ remote = [pushed |-> {}, prs |-> {}]
    /\ last = [p \in Procs |-> NoLast]

\* CreateInstance up to the derivation of worktreePath
derivePath(p) ==
    /\ pc[p] = "idle"
    /\ loc[p].branch # NoStr
    /\ loc' = [loc EXCEPT ![p].verb = "path",
                          ![p].path = WorktreePathOf(loc[p].branch)]
    /\ Goto(p, "return")
    /\ UNCHANGED <<storeVars, expect, remote, worldVars, last>>

NextPath ==
    \E p \in Operator :
        \/ derivePath(p)
        \/ Return(p)

SpecPath == InitPath /\ [][NextPath]_vars

(* ------------------------ verbs and a reader --------------------------- *)
\* Manager.ListInstances in another ocw process: one Load
ListInstances(q) ==
    /\ pc[q] = "idle"
    /\ CanRLock
    /\ loc' = [loc EXCEPT ![q] =
            [NoLoc EXCEPT !.verb = "list",
                          !.err = IF file.complete THEN "" ELSE "state-corrupt",
                          !.cont = "load"]]
    /\ Goto(q, "return")
    /\ UNCHANGED <<storeVars, expect, remote, worldVars, last>>

\* the operator creates, deletes, pauses and resumes instances while
\* another process lists them and the tmux server may go away
NextVerbs ==
    \/ \E p \in Operator :
          \/ StoreSteps(p)
          \/ CreateSteps(p)
          \/ DeleteSteps(p)
          \/ PauseInstance(p)
          \/ ResumeInstance(p)
          \/ SendSignal(p)
    \/ \E q \in Procs \ Operator : ListInstances(q)
    \/ \E p \in Procs : Return(p)
    \/ EnvKillSession

SpecVerbs == Init /\ [][NextVerbs]_vars

(* --------------------------- process start ----------------------------- *)
\* runTUI up to workspace.NewManager: the operator starts ocw without a
\* subcommand
runTUI(p) ==
    /\ pc[p] = "idle"
    /\ last[p].proc = "none"
    /\ last' = [last EXCEPT ![p].proc = "start"]
    /\ UNCHANGED <<pc, loc, storeVars, expect, remote, worldVars>>

\* runTUI: mgr.Reconcile() before tea.NewProgram
startupReconcile(p) ==
    /\ last[p].proc = "start"
    /\ Reconcile(p)

\* the create form of the TUI submits
tuiCreate(p) ==
    /\ last[p].proc = "tui"
    /\ CreateInstance(p)

\* the operator quits the TUI
tuiQuit(p) ==
    /\ pc[p] = "idle"
    /\ last[p].proc = "tui"
    /\ last' = [last EXCEPT ![p].proc = "none"]
    /\ UNCHANGED <<pc, loc, storeVars, expect, remote, worldVars>>

\* ocw new <branch>: a process of its own that ends when the verb returns
newCmd(p) ==
    /\ last[p].proc = "none"
    /\ CreateInstance(p)

\* ocw depend <instance> <depends-on>, likewise a process of its own
dependProcess(p) ==
    /\ last[p].proc = "none"
    /\ dependCmd(p)

\* the operator works through the TUI and through the subcommands
NextStartup ==
    \/ \E p \in Operator :
          \/ runTUI(p)
          \/ startupReconcile(p)
          \/ tuiCreate(p)
          \/ tuiQuit(p)
          \/ newCmd(p)
          \/ dependProcess(p)
          \/ StoreSteps(p)
          \/ EnsureSessionHas(p)
          \/ EnsureSessionNew(p)
          \/ CreateBranchExists(p)
          \/ CreateWorktree(p)
          \/ CreateWindow(p)
          \/ CreateSetup(p)
          \/ CreateAdd(p)
          \/ CreateAdded(p)
          \/ CreateUndoWindow(p)
          \/ CreateUndoWorktree(p)
          \/ ReconcileList(p)
          \/ ReconcileSession(p)
          \/ ReconcileScan(p)
          \/ ReconcileOrphans(p)
          \/ ReconcileApply(p)
          \/ ReconcileApplied(p)
          \/ Return(p)
    \/ EnvKillSession

SpecStartup == Init /\ [][NextStartup]_vars

\* instances are created and, after the tmux server went away, recovered
NextRecover ==
    \/ \E p \in Operator :
          \/ StoreSteps(p)
          \/ CreateSteps(p)
          \/ RecoverFromCrash(p)
          \/ RecoverHasSession(p)
          \/ RecoverMark(p)
          \/ RecoverMarked(p)
          \/ Return(p)
    \/ EnvKillSession

SpecRecover == Init /\ [][NextRecover]_vars

\* the lifecycle with an operator who removes worktrees by hand and with
\* agent processes that exit on their own
NextEnv ==
    \/ Next
    \/ EnvRemoveWorktree
    \/ EnvPaneDies

SpecEnv == Init /\ [][NextEnv]_vars

(* ------------------------------- C1 ------------------------------------ *)
\* C1: add, remove and update are atomic load-modify-save operations: once
\* no store call is in progress, the document shows, for every process, the
\* change its last successful call made to its own instance (two concurrent
\* calls on different instances both take effect).
C1_BothChangesPresent ==
    Quiescent =>
        \A p \in Procs : expect[p] # "none" => Seen(p) = expect[p]

(* ------------------------------- C4 ------------------------------------ *)
\* C4: the document at the target path is always complete, and it changes
\* only by the rename of a completely written temporary file, so a reader
\* sees the document before the write or the document after it.
C4_AtomicWrite ==
    [][/\ file'.complete
       /\ file' # file =>
             \E p \in Procs :
                /\ pc[p] = "store_rename"
                /\ tmp.complete
                /\ file' = Doc(loc[p].st)]_vars

\* a save failed or a process died inside Save, leaving a half-written
\* temporary file, while a complete document is at the target path
C4_Witness ==
    /\ tmp.exists /\ ~tmp.complete
    /\ file.exists /\ file.complete
    /\ \E p \in Procs : pc[p] = "dead"

(* ------------------------------- C2 ------------------------------------ *)
\* C2: when create returns because window creation failed, the error is
\* external-tool-failed, the worktree path of the call is not in git's
\* listing, and the store holds what it held when create was called.
C2_WindowFailureUndone ==
    \A p \in Operator :
        (pc[p] = "return" /\ loc[p].verb = "create" /\ loc[p].cont = "window")
        => /\ loc[p].err = "external-tool-failed"
           /\ ~PathInUse(loc[p].path)
           /\ file = Doc(last[p].insts) \/ (file = NoFile /\ last[p].insts = <<>>)

\* create returns after a failed window creation, with an instance in the
\* store and the branch of the call left behind by the removed worktree
C2_Witness ==
    \E p \in Operator :
        /\ pc[p] = "return" /\ loc[p].verb = "create" /\ loc[p].cont = "window"
        /\ last[p].insts # <<>>
        /\ loc[p].branch \in branches
        /\ loc[p].branch \notin last[p].branches

(* ------------------------------- C3 ------------------------------------ *)
\* the resources and the store are as they were when the verb was called
\* (the windows are compared while the session the call saw still exists)
UntouchedSinceCall(p) ==
    /\ file.insts = last[p].insts
    /\ worktrees = last[p].worktrees
    /\ branches = last[p].branches
    /\ session => windows = last[p].windows /\ panes = last[p].panes

\* C3: a delete that returns an error has left sub-panes, window, worktree,
\* branch and record as they were, or has removed the record.
C3_DeleteAllOrNothing ==
    \A p \in Operator :
        (pc[p] = "return" /\ loc[p].verb = "delete" /\ loc[p].err # "")
        => \/ UntouchedSinceCall(p)
           \/ IndexOf(file.insts, last[p].id) = 0

(* ------------------------------- C5 ------------------------------------ *)
\* no verb of the operator is in progress
VerbsReturned == \A p \in Operator : pc[p] = "idle"

\* C5: whenever every verb has returned, each stored instance whose status
\* is running, idle or paused has its worktree path in git's listing.
C5_ActiveHaveWorktree ==
    VerbsReturned =>
        \A i \in 1..Len(file.insts) :
            file.insts[i].Status \in {"running", "idle", "paused"}
            => PathInUse(file.insts[i].WorktreePath)

(* ------------------------------- C6 ------------------------------------ *)
\* C6: whenever every verb has returned, no two stored instances have the
\* same worktree path and no two have the same window handle.
C6_UniquePathAndWindow ==
    VerbsReturned =>
        \A i, j \in 1..Len(file.insts) :
            i # j => /\ file.insts[i].WorktreePath # file.insts[j].WorktreePath
                     /\ file.insts[i].TmuxWindow # file.insts[j].TmuxWindow

(* ------------------------------- C9 ------------------------------------ *)
\* C9: whenever every verb has returned, no two stored instances have the
\* same id.
C9_UniqueIDs ==
    VerbsReturned =>
        \A i, j \in 1..Len(file.insts) :
            i # j => file.insts[i].ID # file.insts[j].ID

(* ------------------------------- C7 ------------------------------------ *)
\* ids of the stored instances
StoredIDs == {file.insts[i].ID : i \in 1..Len(file.insts)}

\* a stored instance with id a names the stored id b in its depends_on
DependsOnEdge(a, b) ==
    /\ b \in StoredIDs
    /\ \E i \in 1..Len(file.insts) :
          file.insts[i].ID = a /\ b \in Elems(file.insts[i].DependsOn)

\* the ids reached from the set S along at most n edges, n >= 1
RECURSIVE ReachedFrom(_, _)
ReachedFrom(S, n) ==
    LET step == {b \in StoredIDs : \E a \in S : DependsOnEdge(a, b)}
    IN  IF n <= 1 THEN step ELSE step \cup ReachedFrom(step, n - 1)

\* C7: the depends_on edges over the stored instances contain no cycle.
C7_Acyclic ==
    \A id \in StoredIDs : id \notin ReachedFrom({id}, NumIDs)

(* ------------------------------- C8 ------------------------------------ *)
\* C8: whenever every verb has returned, the conflicts_with relation over
\* the stored instances is symmetric.
C8_ConflictsSymmetric ==
    VerbsReturned =>
        \A i, j \in 1..Len(file.insts) :
            file.insts[j].ID \in Elems(file.insts[i].ConflictsWith)
            => file.insts[i].ID \in Elems(file.insts[j].ConflictsWith)

(* ------------------------------- C10 ----------------------------------- *)
\* C10: a step of a merge that pushes the branch or creates the review
\* request is taken only while check_dependencies_merged returns the empty
\* list for the instance.
C10_NoMergeWithUnmergedDeps ==
    [][\A p \in Operator :
          (pc[p] \in {"m_push", "m_pr"} /\ pc'[p] # pc[p] /\ remote' # remote)
          => CheckDependenciesMerged(file.insts, loc[p].id) = <<>>]_vars

\* C11 (as stated): a merge returns merge-has-conflicts exactly when the
\* probe returned a non-empty list of conflict files, and a merge whose probe
\* returned a non-empty list changes nothing on the remote
C11_BlockedIffProbeNonEmpty ==
    [][\A p \in Operator :
          /\ (loc'[p].verb = "merge" /\ pc[p] # "return" /\ pc'[p] = "return")
             => (loc'[p].err = "merge-has-conflicts"
                    <=> loc'[p].conflictFiles # <<>>)
          /\ (pc[p] \in {"m_push", "m_pr"} /\ remote' # remote)
             => loc[p].conflictFiles = <<>>]_vars

\* C11 (amended): a merge returns merge-has-conflicts exactly when the probe
\* reported the merge as not clean, with or without file names, and a merge
\* whose probe reported it not clean changes nothing on the remote
C11_BlockedIffNotClean ==
    [][\A p \in Operator :
          /\ (loc'[p].verb = "merge" /\ pc[p] # "return" /\ pc'[p] = "return")
             => (loc'[p].err = "merge-has-conflicts" <=> loc'[p].hasConflicts)
          /\ (pc[p] \in {"m_push", "m_pr"} /\ remote' # remote)
             => ~loc[p].hasConflicts]_vars

\* a merge has been refused for conflicts the probe could not name
C11_Witness ==
    \E p \in Operator :
        /\ pc[p] = "return" /\ loc[p].verb = "merge"
        /\ loc[p].err = "merge-has-conflicts"
        /\ loc[p].hasConflicts /\ loc[p].conflictFiles = <<>>
        /\ remote = [pushed |-> {}, prs |-> {}]

(* ------------------------------- C12 ----------------------------------- *)
\* C12: an add_dependency(a, b) with a = b, with b already in the depends_on
\* of a, or with a reachable from b along stored depends_on edges, is
\* rejected and leaves the stored document as it was.
C12_RejectedUnchanged ==
    [][\A p \in Procs :
          (pc[p] = "idle" /\ loc'[p].verb = "add_dependency")
          => LET a == loc'[p].id
                 b == loc'[p].dep
             IN  (\/ a = b
                  \/ DependsOnEdge(a, b)
                  \/ /\ a \in StoredIDs /\ b \in StoredIDs
                     /\ a \in ReachedFrom({b}, NumIDs))
                 => /\ loc'[p].err # ""
                    /\ pc'[p] = "return"
                    /\ file' = file]_vars

(* ------------------------------- C13 ----------------------------------- *)
\* the ids in the depends_on of record i of the list that are stored with a
\* status that is neither merged nor done, in the order of depends_on
UnmergedOf(insts, i) ==
    SelectSeq(insts[i].DependsOn,
        LAMBDA d : \E j \in 1..Len(insts) :
                      /\ insts[j].ID = d
                      /\ insts[j].Status \notin {"merged", "done"})

\* C13: the list check_dependencies_merged returns for an instance holds
\* exactly the ids in that instance's depends_on whose stored status is
\* neither merged nor done, and is empty when there are none.
C13_ExactlyUnmerged ==
    \A p \in Operator :
        (pc[p] = "return" /\ loc[p].verb = "check_dependencies")
        => \E i \in 1..Len(last[p].insts) :
              /\ last[p].insts[i].ID = loc[p].id
              /\ loc[p].unmergedDeps = UnmergedOf(last[p].insts, i)

\* the call has returned [B] for an instance that depends on a running B
C13_Witness ==
    \E p \in Operator :
        /\ pc[p] = "return" /\ loc[p].verb = "check_dependencies"
        /\ Len(loc[p].unmergedDeps) = 1
        /\ \E j \in 1..Len(file.insts) :
              /\ file.insts[j].ID = loc[p].unmergedDeps[1]
              /\ file.insts[j].Status = "running"

(* ------------------------------- C14 ----------------------------------- *)
\* C14: a delete called on a stored instance whose window and worktree are
\* both gone is not aborted by kill-window or by worktree-remove, and when
\* it returns without error the record is removed.
C14_DeleteOfLostResources ==
    \A p \in Operator :
        (/\ pc[p] = "return" /\ loc[p].verb = "delete"
         /\ LET i == IndexOf(last[p].insts, last[p].id)
            IN  /\ i # 0
                /\ last[p].insts[i].TmuxWindow
                       \notin {w.ID : w \in last[p].windows}
                /\ \A w \in last[p].worktrees :
                       w.Path # last[p].insts[i].WorktreePath)
        => /\ loc[p].cont \notin {"window", "worktree"}
           /\ loc[p].err = "" => IndexOf(file.insts, last[p].id) = 0

(* ------------------------------- C15 ----------------------------------- *)
\* C15: when a create has returned without error and the delete of the id it
\* returned, called next, has returned without error, the store holds
\* exactly the instances it held when the create was called.
C15_CreateDeleteIdentity ==
    \A p \in Operator :
        (/\ pc[p] = "return" /\ loc[p].verb = "delete" /\ loc[p].err = ""
         /\ last[p].prev.verb = "create"
         /\ last[p].prev.id = last[p].id)
        => file.insts = last[p].prev.insts

(* ------------------------------- C16 ----------------------------------- *)
\* the dependency graph of a document: for every instance, in the order of
\* the document, its id and the set of ids in its depends_on
Graph(insts) ==
    [i \in 1..Len(insts) |->
        [ID |-> insts[i].ID, DependsOn |-> Elems(insts[i].DependsOn)]]

\* C16: when add_dependency(a, b) has returned without error and the
\* remove_dependency(a, b) called next has returned without error, the
\* dependency graph is the one the add was called on.
C16_AddRemoveIdentity ==
    \A p \in Operator :
        (/\ pc[p] = "return" /\ loc[p].verb = "remove_dependency"
         /\ loc[p].err = ""
         /\ last[p].prev.verb = "add_dependency"
         /\ last[p].prev.id = loc[p].id
         /\ last[p].prev.dep = loc[p].dep)
        => Graph(file.insts) = Graph(last[p].prev.insts)

(* ------------------------------- C17 ----------------------------------- *)
\* C17: a pause or a resume called on a stored instance whose agent process
\* does not exist returns not-alive, has sent no signal and has left the
\* stored instances as they were.
C17_NotAlive ==
    \A p \in Operator :
        (/\ pc[p] = "return" /\ loc[p].verb \in {"pause", "resume"}
         /\ IndexOf(last[p].insts, last[p].id) # 0
         /\ ~(loc[p].pid > 0 /\ loc[p].pid \in last[p].alive))
        => /\ loc[p].err = "not-alive"
           /\ loc[p].signal = "none"
           /\ file.insts = last[p].insts

(* ------------------------------- C18 ----------------------------------- *)
\* the positions in the loaded document of the instances whose worktree
\* path the listing reconcile read does not hold
AbsentWorktree(p) ==
    {i \in 1..Len(loc[p].cur) : loc[p].cur[i].WorktreePath \notin loc[p].wts}

C19_SessionBackAllError ==
    \A p \in Operator :
        (/\ pc[p] = "return" /\ loc[p].verb = "reconcile"
         /\ ~loc[p].sessionExists
         /\ \E i \in 1..Len(loc[p].cur) :
               loc[p].cur[i].WorktreePath \in loc[p].wts)
        => /\ session
           /\ \A i \in 1..Len(loc[p].cur) :
                 loc[p].cur[i].WorktreePath \in loc[p].wts
                 => \A j \in 1..Len(file.insts) :
                       file.insts[j].ID = loc[p].cur[i].ID
                       => file.insts[j].Status = "error"

(* ------------------------------- C20 ----------------------------------- *)
\* C20: a recover_from_crash that found instances stored and the session
\* absent has a session once EnsureSession is through, and when its marking
\* loop ends every stored instance has status error.
C20_RecoverMarksAll ==
    [][\A p \in Operator :
          loc[p].verb = "recover"
          => /\ (pc[p] \in {"ensure_has", "ensure_new"} /\ pc'[p] = "x_mark")
                => session'
             /\ (pc[p] = "x_mark" /\ pc'[p] = "return")
                => \A j \in 1..Len(file'.insts) :
                      file'.insts[j].Status = "error"]_vars

(* ------------------------------- C21 ----------------------------------- *)
MutatingVerbs ==
    {"create", "delete", "pause", "resume", "add_dependency", "merge"}

\* C21: a process that begins a mutating verb is a process whose startup
\* reconciliation has returned.
C21_ReconciledBeforeMutation ==
    [][\A p \in Operator :
          (pc[p] = "idle" /\ pc'[p] # "idle" /\ loc'[p].verb \in MutatingVerbs)
          => last[p].proc = "tui"]_vars

(* ------------------------------- C22 ----------------------------------- *)
\* C22: a create_sub_pane whose instance had six sub-panes when it was
\* called returns an error, has added no pane to the session and has left
\* the stored instances, their sub-pane lists included, as they were.
C22_SeventhRefused ==
    \A p \in Operator :
        LET i == IndexOf(last[p].insts, last[p].id)
        IN  (/\ pc[p] = "return" /\ loc[p].verb = "create_sub_pane"
             /\ i # 0
             /\ Len(last[p].insts[i].SubTerminals) = 6)
            => /\ loc[p].err # ""
               /\ panes \subseteq last[p].panes
               /\ file.insts = last[p].insts

C22_Witness ==
    \E p \in Operator :
        LET i == IndexOf(last[p].insts, last[p].id)
        IN  /\ pc[p] = "return" /\ loc[p].verb = "create_sub_pane"
            /\ i # 0
            /\ Len(last[p].insts[i].SubTerminals) = 6
            /\ loc[p].err = "precondition-failed"
            /\ Cardinality(last[p].panes) = 6

(* ------------------------------- C23 ----------------------------------- *)
\* C23: every call of ensure_session returns without error, whether it
\* created the session or found it, and the session exists when it returns.
C23_EnsureAlwaysSucceeds ==
    \A p \in Procs :
        (pc[p] = "return" /\ loc[p].verb = "ensure_session")
        => loc[p].err = "" /\ session

(* ------------------------------- C24 ----------------------------------- *)
\* a create has returned without error; it was called on an empty store for
\* a branch that did not exist, and the tmux server is still there
CreatedOnEmpty(p) ==
    /\ pc[p] = "return" /\ loc[p].verb = "create" /\ loc[p].err = ""
    /\ last[p].insts = <<>>
    /\ loc[p].branch \notin last[p].branches
    /\ session

C25_NoURLFails ==
    \A p \in Operator :
        (/\ pc[p] = "return"
         /\ loc[p].prOut.exit = 0
         /\ LastHTTPLine(loc[p].prOut.lines) = 0)
        => loc[p].err # "" /\ file.insts = last[p].insts

(* ------------------------------- C26 ----------------------------------- *)
\* the branch name with "/" and every character outside [A-Za-z0-9_.-]
\* replaced by "-"
Replaced(branch) ==
    [i \in 1..Len(branch) |->
        IF branch[i] \in PathChars \ {"/"} THEN branch[i] ELSE "-"]

\* the positions of s that hold neither "-" nor "."
Kept(s) == {i \in 1..Len(s) : s[i] \notin {"-", "."}}

Least(S) == CHOOSE i \in S : \A j \in S : i <= j
Greatest(S) == CHOOSE i \in S : \A j \in S : j <= i

\* C26 as stated: the derived path is <repo>/<dir>/<s>, s being the replaced
\* name from its first character that is neither "-" nor "." onwards.
C26_LeadingStripped ==
    \A p \in Operator :
        (pc[p] = "return" /\ loc[p].verb = "path")
        => LET r == Replaced(loc[p].branch)
               s == IF Kept(r) = {} THEN <<>>
                    ELSE SubSeq(r, Least(Kept(r)), Len(r))
           IN  loc[p].path = RepoRoot \o <<"w", "/">> \o s

\* C26 amended: s is the replaced name between its first and its last
\* character that is neither "-" nor ".", and "branch" when it has none.
C26_BothEndsStripped ==
    \A p \in Operator :
        (pc[p] = "return" /\ loc[p].verb = "path")
        => LET r == Replaced(loc[p].branch)
               s == IF Kept(r) = {} THEN <<"b","r","a","n","c","h">>
                    ELSE SubSeq(r, Least(Kept(r)), Greatest(Kept(r)))
           IN  loc[p].path = RepoRoot \o <<"w", "/">> \o s

C26_Witness ==
    \E p \in Operator :
        /\ pc[p] = "return" /\ loc[p].verb = "path"
        /\ loc[p].branch = <<"/", "a", " ">>
        /\ loc[p].path = RepoRoot \o <<"w", "/", "a">>

(* ------------------------------- C27 ----------------------------------- *)
CommitVerbs == {"create", "delete", "pause", "resume"}

\* the verb of p has changed the stored document
Committed(p) == file.insts # last[p].insts

AfterWindow == {"c_remain", "c_panes", "c_send", "c_pid", "c_added"}

Reconciled(p, id) ==
    /\ pc[p] = "return" /\ loc[p].verb = "reconcile"
    /\ [kind |-> "update", id |-> id] \notin loc[p].res.Errors

\* the window of the loaded instance was in the listing reconcile took
WindowListed(p, inst) ==
    loc[p].sessionExists /\ inst.TmuxWindow \in loc[p].windowMap

\* C29: when reconcile has returned, every instance it loaded whose
\* worktree was listed and whose window was not is stored with status
\* error.
C29_WindowGoneIsError ==
    \A p \in Operator :
        \A i \in 1..Len(loc[p].cur) :
            LET inst == loc[p].cur[i]
            IN  (/\ Reconciled(p, inst.ID)
                 /\ inst.WorktreePath \in loc[p].wts
                 /\ ~WindowListed(p, inst))
                => \A j \in 1..Len(file.insts) :
                      file.insts[j].ID = inst.ID
                      => file.insts[j].Status = "error"

(* ------------------------------- C30 ----------------------------------- *)
\* C30: when the scan of reconcile meets an instance whose worktree is
\* listed and whose window is present, it marks the instance for status
\* error (unless it has that status) if the primary pane is dead, or if the
\* instance is recorded as running and its PID is not alive; it marks
\* nothing if the PID is alive and the pane is not dead.
C30_DeadPaneIsError ==
    [][\A p \in Operator :
          LET l == loc[p]
              inst == l.cur[l.i]
              dead == inst.PrimaryPane \in deadPanes
              pidAlive == isProcessAlive(inst.PID)
          IN  (/\ pc[p] = "r_scan" /\ l.i <= Len(l.cur) /\ loc'[p].i = l.i + 1
               /\ inst.WorktreePath \in l.wts
               /\ WindowListed(p, inst) /\ inst.TmuxWindow \in WindowIDs)
              => /\ (dead \/ (inst.Status = "running" /\ ~pidAlive))
                    => (inst.ID \in loc'[p].toUpdate \/ inst.Status = "error")
                 /\ (pidAlive /\ ~dead)
                    => loc'[p].toUpdate = l.toUpdate]_vars

(* ------------------------------- C31 ----------------------------------- *)
\* the statuses that are terminal with respect to the agent
TerminalStatuses == {"merged", "done"}

\* C31: a store write made by pause, resume, reconcile or recover_from_crash
\* keeps every record whose status is merged or done, with that status.
C31_TerminalKept ==
    [][\A p \in Operator :
          (/\ loc[p].verb \in {"pause", "resume", "reconcile", "recover"}
           /\ file' # file)
          => \A i \in 1..Len(file.insts) :
                file.insts[i].Status \in TerminalStatuses
                => \E j \in 1..Len(file'.insts) :
                      /\ file'.insts[j].ID = file.insts[i].ID
                      /\ file'.insts[j].Status = file.insts[i].Status]_vars

(* ------------------------------- C32 ----------------------------------- *)
\* C32: a store write made by pause or resume keeps the records in place
\* and changes a status only from running to paused (pause) or from paused
\* to running (resume).
C32_PermittedTransitions ==
    [][\A p \in Operator :
          (loc[p].verb \in {"pause", "resume"} /\ file' # file)
          => /\ Len(file'.insts) = Len(file.insts)
             /\ \A i \in 1..Len(file.insts) :
                   file'.insts[i].Status # file.insts[i].Status
                   => <<file.insts[i].Status, file'.insts[i].Status>>
                      = IF loc[p].verb = "pause"
                        THEN <<"running", "paused">>
                        ELSE <<"paused", "running">>]_vars

(* ------------------------------- C33 ----------------------------------- *)
\* delete was asked to delete the branch of the instance it loaded, and the
\* branch is named and is not the base branch of the record
BranchAsked(p) ==
    /\ loc[p].deleteBranch
    /\ loc[p].inst.Branch # NoStr
    /\ loc[p].inst.Branch # loc[p].inst.BaseBranch

\* C33: a step of delete removes a branch only when delete_branch is set
\* and the branch of the instance is non-empty and differs from its base
\* branch, and then it removes exactly that branch; the base branch of the
\* instance is never removed; and a delete that returns without error under
\* these conditions leaves the branch deleted.
C33_BranchDeletedIff ==
    [][\A p \in Operator :
          loc[p].verb = "delete"
          => /\ branches' # branches
                => /\ BranchAsked(p)
                   /\ branches' = branches \ {loc[p].inst.Branch}
             /\ loc[p].inst.BaseBranch \in branches
                => loc[p].inst.BaseBranch \in branches'
             /\ (pc'[p] = "return" /\ loc'[p].err = "" /\ BranchAsked(p))
                => loc[p].inst.Branch \notin branches']_vars

\* delete has returned without error and has deleted the branch
C33_Witness ==
    \E p \in Operator :
        /\ pc[p] = "return" /\ loc[p].verb = "delete" /\ loc[p].err = ""
        /\ BranchAsked(p)
        /\ loc[p].inst.Branch \notin branches

(* ------------------------------- C34 ----------------------------------- *)
\* the paths of the listing reconcile took that are not marked bare and
\* are not the worktree path of any instance it loaded
OrphansOf(l) ==
    {path \in l.wts :
        /\ ~(l.bare /\ path = RepoRoot)
        /\ \A i \in 1..Len(l.cur) : l.cur[i].WorktreePath # path}

SubTerminalsOf(insts, id) ==
    IF IndexOf(insts, id) = 0 THEN <<>>
    ELSE insts[IndexOf(insts, id)].SubTerminals

\* C35: when kill_sub_pane returns from a call on a pane id that the
\* instance listed when it was called, it reports no error, the pane is not
\* in the multiplexer, and the list of the instance is the former list
\* without that pane id.
C35_KillRemovesEntry ==
    \A p \in Operator :
        (/\ pc[p] = "return" /\ loc[p].verb = "kill_sub_pane"
         /\ \E k \in 1..Len(SubTerminalsOf(last[p].insts, loc[p].id)) :
               SubTerminalsOf(last[p].insts, loc[p].id)[k] = loc[p].pane)
        => /\ loc[p].err = ""
           /\ \A sp \in panes : sp.ID # loc[p].pane
           /\ SubTerminalsOf(file.insts, loc[p].id)
              = SelectSeq(SubTerminalsOf(last[p].insts, loc[p].id),
                          LAMBDA st : st # loc[p].pane)

(* ------------------------------- C36 ----------------------------------- *)
\* C36: whenever no process is inside a verb, every id in the depends_on
\* or conflicts_with of a stored instance is the id of a stored instance.
C36_NoDanglingIDs ==
    Quiescent
    => \A i \in 1..Len(file.insts) :
          /\ Elems(file.insts[i].DependsOn) \subseteq StoredIDs
          /\ Elems(file.insts[i].ConflictsWith) \subseteq StoredIDs

(* ------------------------------- C37 ----------------------------------- *)
\* C37: no stored instance ever has more than six sub-panes recorded, also
\* when two processes call create_sub_pane at the same time.
C37_AtMostSixRecorded ==
    \A i \in 1..Len(file.insts) : Len(file.insts[i].SubTerminals) <= maxPanes

(* ------------------------------- C38 ----------------------------------- *)
\* C38: two calls of the topological sort that were given the same list of
\* instances return the same result.
C38_SameListSameOrder ==
    \A p, q \in Procs :
        (/\ pc[p] = "return" /\ loc[p].verb = "topological_sort"
         /\ pc[q] = "return" /\ loc[q].verb = "topological_sort"
         /\ loc[p].cur = loc[q].cur)
        => /\ loc[p].err = loc[q].err
           /\ loc[p].sorted = loc[q].sorted

(* ------------------------------- C39 ----------------------------------- *)
\* C39: when a run of reconcile that started as soon as another run had
\* returned, with no outside change since that run began, returns, the
\* store is as the second run found it and its report counts no instance
\* removed and no instance marked error.
C39_SecondRunChangesNothing ==
    \A p \in Operator :
        (pc[p] = "return" /\ loc[p].verb = "reconcile" /\ loc[p].again)
        => /\ file.insts = last[p].insts
           /\ loc[p].res.InstancesRemoved = 0
           /\ loc[p].res.InstancesFixed = 0

(* ------------------------------- C40 ----------------------------------- *)
\* the stored records that have status error and had another status when
\* the verb of process p was called
MarkedError(p) ==
    {j \in 1..Len(file.insts) :
        /\ file.insts[j].Status = "error"
        /\ \E i \in 1..Len(last[p].insts) :
              /\ last[p].insts[i].Status # "error"
              /\ file.insts[j] = [last[p].insts[i] EXCEPT !.Status = "error"]}

\* C40: when reconcile returns with no error in its report, InstancesFixed
\* of the report is the number of instances whose status this run changed
\* to error.
C40_FixedCountsInstances ==
    \A p \in Operator :
        (/\ pc[p] = "return" /\ loc[p].verb = "reconcile"
         /\ loc[p].res.Errors = {})
        => loc[p].res.InstancesFixed = Cardinality(MarkedError(p))

====
